---- MODULE Spec2Model ----
(***************************************************************************)
(* Model of the MDL module driver (Mdl_module::create_module and           *)
(* Mdl_module::create_module_internal) and of the uniform analysis used by *)
(* Mdl_module::add_material, from                                          *)
(* src/io/scene/mdl_elements/mdl_elements_module.cpp.                      *)
(*                                                                         *)
(* The driver is a sequential, recursive program.  It is modelled with an  *)
(* explicit call stack of create_module_internal frames; every action is   *)
(* the code between two points where control leaves the function (a        *)
(* recursive call or a return).                                            *)
(***************************************************************************)
EXTENDS Integers, Sequences, FiniteSets, TLC

VARIABLES
    registry,   \* DB::Transaction: the set of stored elements (tag, name, class, visibility)
    next_tag,   \* DB::Transaction: the next tag handed out by store()/reserve_tag()
    top,        \* the create_module() call that is running or has returned last
    stack,      \* activation records of create_module_internal, innermost last
    ret,        \* value returned by the create_module_internal invocation that just ended
    messages,   \* the caller-supplied std::vector<Message>
    did,        \* services used by the running call: registry lookup, loader, DAG generator, store
    reg0,       \* the registry when the running call started
    created,    \* module names for which some create_module() call has returned 0
    restored,   \* modules whose import entries are restored and not yet dropped
    builder,    \* create_module() from variants: the loops over variant_data and the new module
    callee,     \* add_material(): the arguments and parameter types of the prototype call
    analysis,   \* add_material(): find_path() and can_enforce_uniform() for one parameter
    resolved,   \* the results find_path() has returned so far, by path
    synth,      \* add_material(): the loops over the requests and the declaration it builds
    factory     \* create_texture(), create_light_profile(), create_bsdf_measurement(): the call

\* the variables of the module driver
driver_vars ==
    <<registry, next_tag, top, stack, ret, messages, did, reg0, created, restored, builder>>

\* the variables of the material synthesis
material_vars == <<callee, analysis, resolved, synth, factory>>

vars == <<driver_vars, material_vars>>

----------------------------------------------------------------------------
(* Bounds of the model *)

\* number of elements another client has stored in the DB before the driver runs
MaxForeign == 1
\* number of variants one create_module() call is given
MaxVariants == 2
\* nesting depth of the argument expressions of the prototype call
MaxDepth == 2
\* number of parameters of a new material
MaxRequests == 2

----------------------------------------------------------------------------
(* Names.  A name is the sequence of its tokens: the scope separator "::"  *)
(* and the maximal character runs between separators.                      *)

SEP == "::"

\* mi::mdl::IMDL::is_valid_mdl_identifier: the compiler's identifier check
is_valid_mdl_identifier(ident) == ident \in {"a", "b", "c", "d", "v"}

\* strstr( name, "::"): index of the first separator, 0 if there is none
RECURSIVE strstr_scope(_, _)
strstr_scope(name, from) ==
    IF from > Len(name) THEN 0
    ELSE IF name[from] = SEP THEN from
    ELSE strstr_scope(name, from + 1)

\* std::string( name, scope - name): the characters before the separator
ident_before(name, from, scope) ==
    LET last == IF scope = 0 THEN Len(name) ELSE scope - 1
    IN  IF last < from THEN "" ELSE name[from]

\* the loop of is_valid_module_name over the components of the name
RECURSIVE valid_components(_, _)
valid_components(name, from) ==
    LET scope == strstr_scope(name, from)
        ident == ident_before(name, from, scope)
    IN  IF ~is_valid_mdl_identifier(ident) THEN FALSE
        ELSE IF scope # 0 THEN valid_components(name, scope + 1)
        ELSE TRUE

\* a name whose first component is accepted although a later one is not
is_valid_module_name_first_only(name) ==
    LET from == IF Len(name) >= 1 /\ name[1] = SEP THEN 2 ELSE 1
    IN  is_valid_mdl_identifier(ident_before(name, from, strstr_scope(name, from)))

\* Mdl_module::is_valid_module_name
is_valid_module_name(name) ==
    LET from == IF Len(name) >= 1 /\ name[1] = SEP THEN 2 ELSE 1
    IN  valid_components(name, from)

\* add_mdl_db_prefix: the DB name of an MDL name
add_mdl_db_prefix(name) == <<"mdl">> \o name

NameA      == <<SEP, "a">>
NameB      == <<SEP, "b">>
NameC      == <<SEP, "c">>
NameV      == <<SEP, "v">>
NameNeuray == <<SEP, "<neuray>">>
NameBad    == <<SEP, "a", SEP, "x/y">>
NameD      == <<SEP, "d">>

\* the module names callers ask for
RequestNames == {NameA, NameB, NameNeuray, NameBad}

----------------------------------------------------------------------------
(* What the external compiler delivers for a module.  The sources are fixed: *)
(* module a imports b and c (in either order) and defines the exported       *)
(* function f, the local function g and the exported material m; b imports   *)
(* c and defines the exported function f; c and <neuray> define nothing.     *)
(* Module d, which only the calls of SpecDuplicates ask for, imports b and   *)
(* has a function entry and a material entry of the same name.               *)

\* a function or material entry of the generated DAG code
Def(module, simple, exported) ==
    [name |-> module \o <<SEP, simple>>, exported |-> exported]

\* IModule::get_import_count / get_import: the import graph is acyclic
ImportsOf(name) ==
    IF name = NameA THEN {<<NameB, NameC>>, <<NameC, NameB>>}
    ELSE IF name = NameB THEN {<<NameC>>}
    ELSE IF name = NameD THEN {<<NameB>>}
    ELSE {<<>>}

\* IGenerated_code_dag::get_function_count / get_function_name
FunctionsOf(name) ==
    IF name = NameA THEN {<<Def(name, "f()", TRUE), Def(name, "g()", FALSE)>>}
    ELSE IF name = NameB THEN {<<Def(name, "f()", TRUE)>>}
    ELSE IF name = NameD THEN {<<Def(name, "e()", TRUE)>>}
    ELSE {<<>>}

\* IGenerated_code_dag::get_material_count / get_material_name
MaterialsOf(name) ==
    IF name = NameA THEN {<<Def(name, "m()", TRUE)>>}
    ELSE IF name = NameD THEN {<<Def(name, "e()", TRUE)>>}
    ELSE {<<>>}

\* the compiled forms a module of this name can have
Contents(name) ==
    [imports : ImportsOf(name), functions : FunctionsOf(name), materials : MaterialsOf(name)]

\* the message lists a module or a generated code can carry: none, warnings only,
\* errors only, both
MsgLists == {<<>>, <<"warning">>, <<"error">>, <<"warning", "error">>}

\* Messages::get_error_message_count
get_error_message_count(msgs) == Cardinality({k \in 1..Len(msgs) : msgs[k] = "error"})

\* IModule::is_valid: a module is valid if and only if it carries no error message
is_valid(module_messages) == get_error_message_count(module_messages) = 0

----------------------------------------------------------------------------
(* The registry (DB::Transaction) *)

ID_MODULE   == "Mdl_module"
ID_FUNCTION == "Mdl_function_definition"
ID_MATERIAL == "Mdl_material_definition"
ID_OTHER    == "Texture"

\* the names another client may have used for elements of its own
ForeignNames ==
    {add_mdl_db_prefix(n) : n \in {NameB, NameBad}}
    \cup {add_mdl_db_prefix(NameA \o <<SEP, s>>) : s \in {"g()", "m()"}}
    \cup {add_mdl_db_prefix(NameB \o <<SEP, "f()">>)}

\* an element that is stored under its name whatever the caller asks for
Element_visible(tag, name, class_id, visible, imports, module) ==
    [tag |-> tag, name |-> name, class_id |-> class_id, visible |-> TRUE,
     imports |-> imports, module |-> module]

\* a stored element: visible is FALSE for store_for_reference_counting(), imports is
\* the import tag list of a module, module the owning module of a definition
Element(tag, name, class_id, visible, imports, module) ==
    [tag |-> tag, name |-> name, class_id |-> class_id, visible |-> visible,
     imports |-> imports, module |-> module]

\* the elements a set of foreign names stands for, tagged 1, 2, ...
RECURSIVE ForeignElements(_, _)
ForeignElements(names, tag) ==
    IF names = {} THEN {}
    ELSE LET n == CHOOSE x \in names : TRUE
         IN  {Element(tag, n, ID_OTHER, TRUE, <<>>, 0)} \cup ForeignElements(names \ {n}, tag + 1)

\* DB::Transaction::name_to_tag: the tag stored last under the name, 0 if there is none
name_to_tag(reg, name) ==
    LET tags == {e.tag : e \in {x \in reg : x.name = name}}
    IN  IF tags = {} THEN 0 ELSE CHOOSE t \in tags : \A u \in tags : u <= t

\* DB::Transaction::get_class_id
get_class_id(reg, tag) == (CHOOSE e \in reg : e.tag = tag).class_id

\* the names bound in the registry
BoundNames(reg) == {e.name : e \in reg}

----------------------------------------------------------------------------
(* Initial state *)

\* nothing returned: cause names the return statement taken, inner and inner_cause
\* the status and the return statement of the import that made an outer invocation fail
NoRet ==
    [set |-> FALSE, status |-> 0, tag |-> 0, cause |-> "none", inner |-> 0,
     inner_cause |-> "none", dropped |-> 0]

\* the state of create_module() from variants: the loop it is in, variant_count, the
\* loop index, max_major/max_minor, the version the new module is created with
\* and the declarations added to the new module; after
\* a return out of a loop, i is the index of the variant_data entry it returned at and
\* defaults the m_defaults of that entry
NoBuilder ==
    [pc |-> "none", count |-> 0, i |-> 0, prototypes |-> <<>>, max_major |-> 1,
     max_minor |-> 0, version |-> "none", imports |-> <<>>, functions |-> <<>>,
     materials |-> <<>>, defaults |-> <<>>]

\* no create_module() call yet
NoTop ==
    [pc |-> "init", entry |-> "none", name |-> <<>>, status |-> 0, cause |-> "none",
     prior |-> FALSE]

\* no prototype call
NoCallee == [arguments |-> <<>>]

\* no parameter is being analyzed: path is the m_path of the parameter, found and
\* p_expr the result of find_path(), queue the Wait_queue, must_be_uniform the
\* out-parameter and ok the value can_enforce_uniform() returns; last is the entry
\* popped by the last iteration, popped all entries popped so far
NoAnalysis ==
    [pc |-> "idle", path |-> <<>>, found |-> FALSE, p_expr |-> <<>>, queue |-> <<>>,
     must_be_uniform |-> FALSE, ok |-> FALSE, status |-> 0,
     last |-> [expr |-> <<>>, is_uniform |-> FALSE], popped |-> <<>>]

\* find_path() has not been called
NoResolved == {}

\* no add_material() call. has_args: callee.get_arguments() is a valid interface;
\* count: md.m_parameters.size(); i: the index of the loop that runs; requests: the
\* Parameter_data read so far; new_params: the vector of New_parameter; types: the kinds
\* of the types of the argument a and of its argument x; fdecl: the parameters added
\* to the declaration; declarations: the declarations added to the module; body: the
\* expression of the body, of kind "none" before it is created
NoSynth ==
    [pc |-> "idle", has_args |-> FALSE, count |-> 0, i |-> 0, requests |-> <<>>,
     new_params |-> <<>>, types |-> <<"TK_INT", "TK_INT">>, fdecl |-> <<>>,
     declarations |-> <<>>, status |-> 0,
     body |-> [kind |-> "none", declarations |-> <<>>, arguments |-> <<>>]]

\* no call of a resource factory function; after a call: the function, its arguments
\* (transaction: whether the pointer is set; file_path: <<>> for a null pointer, else
\* the string in a sequence of length one; has_errors: whether errors is set), whether
\* the resolver was called and the tag it returned, the value stored through errors
\* (to dummy_errors if errors is not set) and the tag of the value returned, 0 for none
NoFactory ==
    [pc |-> "idle", op |-> "none", transaction |-> FALSE, file_path |-> <<>>,
     shape |-> "none", shared |-> FALSE, has_errors |-> FALSE, resolved |-> FALSE,
     tag |-> 0, errors |-> 0, value |-> 0]

Init ==
    /\ callee = NoCallee
    /\ analysis = NoAnalysis
    /\ resolved = NoResolved
    /\ synth = NoSynth
    /\ factory = NoFactory
    /\ \E names \in SUBSET ForeignNames :
          /\ Cardinality(names) <= MaxForeign
          /\ registry = ForeignElements(names, 1)
          /\ next_tag = Cardinality(names) + 1
    /\ top = NoTop
    /\ stack = <<>>
    /\ ret = NoRet
    /\ messages = <<>>
    /\ did = {}
    /\ reg0 = registry
    /\ created = {}
    /\ restored = {}
    /\ builder = NoBuilder

----------------------------------------------------------------------------
(* Helpers of the driver *)

Top == stack[Len(stack)]

Pop(stk) == SubSeq(stk, 1, Len(stk) - 1)

ReplaceTop(stk, f) == [stk EXCEPT ![Len(stk)] = f]

\* an activation record of an invocation that is never passed a module_tag
Frame_no_out(module, choices, out) ==
    [module |-> module, choices |-> choices, out |-> FALSE, pc |-> "begin",
     import_names |-> <<>>, functions |-> <<>>, materials |-> <<>>,
     i |-> 0, imports |-> <<>>, db_module_tag |-> 0, jf |-> 0, jm |-> 0,
     errors |-> 0, warnings |-> 0, analyzed |-> FALSE]

\* an activation record of create_module_internal for a module
Frame(module, choices, out) ==
    [module |-> module, choices |-> choices, out |-> out, pc |-> "begin",
     import_names |-> <<>>, functions |-> <<>>, materials |-> <<>>,
     i |-> 0, imports |-> <<>>, db_module_tag |-> 0, jf |-> 0, jm |-> 0,
     errors |-> 0, warnings |-> 0, analyzed |-> FALSE]

\* the return statement an existence check leads to
ExistenceCause(status) == IF status = 1 THEN "exists" ELSE "name_in_use_wrong_kind"

\* the start of every create_module() overload: no call is running and the caller
\* has taken the result of the call before
StartCall(entry, name) ==
    /\ top.pc = "init"
    /\ stack = <<>>
    /\ reg0' = registry

\* the call that starts now
Running(entry, name) ==
    [pc |-> "running", entry |-> entry, name |-> name, status |-> 0, cause |-> "none",
     prior |-> name \in created]

\* create_module() returns status; cause names the return statement taken and prior
\* says whether an earlier call has returned 0 for the name
Returned(entry, name, status, cause) ==
    /\ top' = [pc |-> "returned", entry |-> entry, name |-> name, status |-> status,
               cause |-> cause, prior |-> name \in created]
    /\ created' = IF status = 0 THEN created \cup {name} ELSE created

\* an existence check that does not look at the kind of the element
ExistenceCheck_no_kind(reg, db_name) ==
    IF name_to_tag(reg, db_name) = 0 THEN 0 ELSE 1

\* an existence check without the return for a module that exists
ExistenceCheck_only_conflicts(reg, db_name) ==
    LET tag == name_to_tag(reg, db_name)
    IN  IF tag # 0 /\ get_class_id(reg, tag) # ID_MODULE THEN -3 ELSE 0

\* an existence check that reports a name conflict as a load failure
ExistenceCheck_wrong_code(reg, db_name) ==
    LET tag == name_to_tag(reg, db_name)
    IN  IF tag = 0 THEN 0
        ELSE IF get_class_id(reg, tag) # ID_MODULE THEN -2
        ELSE 1

\* the DB name check all three overloads and create_module_internal share
\* (lines 192-202, 253-263, 295-305, 1234-1246): 0 if the name is free, else the
\* status to return
ExistenceCheck(reg, db_name) ==
    LET tag == name_to_tag(reg, db_name)
    IN  IF tag = 0 THEN 0
        ELSE IF get_class_id(reg, tag) # ID_MODULE THEN -3
        ELSE 1

----------------------------------------------------------------------------
(* create_module( transaction, module_name, messages) *)

\* an overload that goes on with every name
NameAccepted_any(entry, name) == TRUE

\* the name check of an overload (lines 189, 250, 292): the by-stream overload
\* accepts the name "::<neuray>" as well
NameAccepted(entry, name) ==
    \/ is_valid_module_name(name)
    \/ entry = "stream" /\ name = NameNeuray

\* lines 178-214: name validation, existence check, load_module(), call of
\* create_module_internal, for a module name of the given set
CreateModuleByNameIn(names) ==
    \E name \in names :
       /\ StartCall("name", name)
       /\ IF ~NameAccepted("name", name)
          THEN /\ Returned("name", name, -1, "invalid_name")
               /\ did' = {}
               /\ messages' = <<>>
               /\ UNCHANGED stack
          ELSE IF ExistenceCheck(registry, add_mdl_db_prefix(name)) # 0
          THEN /\ Returned("name", name, ExistenceCheck(registry, add_mdl_db_prefix(name)),
                           ExistenceCause(ExistenceCheck(registry, add_mdl_db_prefix(name))))
               /\ did' = {"lookup"}
               /\ messages' = <<>>
               /\ UNCHANGED stack
          ELSE \/ \* load_module() returns no module
                  /\ \E context_messages \in MsgLists : messages' = context_messages
                  /\ Returned("name", name, -2, "load_failed")
                  /\ did' = {"lookup", "load"}
                  /\ UNCHANGED stack
               \/ \* load_module() returns a module
                  /\ top' = Running("name", name)
                  /\ stack' = <<Frame(name, Contents(name), FALSE)>>
                  /\ did' = {"lookup", "load"}
                  /\ messages' = <<>>
                  /\ UNCHANGED created
       /\ ret' = NoRet
       /\ UNCHANGED <<registry, next_tag, restored, builder,
                 material_vars>>

\* the by-name calls of the callers
CreateModuleByName == CreateModuleByNameIn(RequestNames)

(* create_module( transaction, module_name, module_source, messages) *)

\* lines 237-275: name validation, existence check, load_module_from_stream(), call
\* of create_module_internal
CreateModuleFromStream ==
    \E name \in RequestNames :
       /\ StartCall("stream", name)
       /\ IF ~NameAccepted("stream", name)
          THEN /\ Returned("stream", name, -1, "invalid_name")
               /\ did' = {}
               /\ messages' = <<>>
               /\ UNCHANGED stack
          ELSE IF ExistenceCheck(registry, add_mdl_db_prefix(name)) # 0
          THEN /\ Returned("stream", name, ExistenceCheck(registry, add_mdl_db_prefix(name)),
                           ExistenceCause(ExistenceCheck(registry, add_mdl_db_prefix(name))))
               /\ did' = {"lookup"}
               /\ messages' = <<>>
               /\ UNCHANGED stack
          ELSE \/ \* load_module_from_stream() returns no module
                  /\ \E context_messages \in MsgLists : messages' = context_messages
                  /\ Returned("stream", name, -2, "load_failed")
                  /\ did' = {"lookup", "load"}
                  /\ UNCHANGED stack
               \/ \* load_module_from_stream() returns a module
                  /\ top' = Running("stream", name)
                  /\ stack' = <<Frame(name, Contents(name), FALSE)>>
                  /\ did' = {"lookup", "load"}
                  /\ messages' = <<>>
                  /\ UNCHANGED created
       /\ ret' = NoRet
       /\ UNCHANGED <<registry, next_tag, restored, builder,
                 material_vars>>

\* a caller that reports a failure of create_module_internal as success
CreateModuleStatus_swallow(internal) == IF internal < 0 THEN 0 ELSE internal

\* lines 213-218, 275, 405: the status create_module() returns for the status of
\* create_module_internal
CreateModuleStatus(internal) == internal

\* create_module() passes on what create_module_internal returned
CreateModuleReturn ==
    /\ top.pc = "running"
    /\ stack = <<>>
    /\ ret.set
    /\ Returned(top.entry, top.name, CreateModuleStatus(ret.status), ret.cause)
    /\ ret' = NoRet
    /\ UNCHANGED <<registry, next_tag, stack, messages, did, reg0, restored, builder,
                 material_vars>>

\* the caller has taken the status and the messages of the call; its next call
\* comes with a message vector of its own
ResultTaken ==
    /\ top.pc = "returned"
    /\ top' = NoTop
    /\ messages' = <<>>
    /\ did' = {}
    /\ reg0' = registry
    /\ builder' = NoBuilder
    /\ UNCHANGED <<registry, next_tag, stack, ret, created, restored,
                 material_vars>>

----------------------------------------------------------------------------
(* create_module( transaction, module_name, variant_data, variant_count, messages) *)

\* the names the by-variants overload is asked for
VariantRequestNames == {NameV, NameB, NameBad}

\* the elements variant_data names as prototypes (m_prototype_tag)
PrototypeNames ==
    {add_mdl_db_prefix(NameB \o <<SEP, "f()">>),
     add_mdl_db_prefix(NameA \o <<SEP, "m()">>),
     add_mdl_db_prefix(NameB)}

\* the names of the variants (m_variant_name), by position in variant_data
VariantNames == <<"v1()", "v2()", "v3()", "v4()">>

\* the default lists of a variant (m_defaults): (parameter name, type of the expression)
DefaultLists ==
    {<<>>,
     <<[name |-> "x", type |-> "int"]>>,
     <<[name |-> "z", type |-> "int"]>>,
     <<[name |-> "x", type |-> "color"]>>}

\* Mdl_function_definition / Mdl_material_definition::get_parameter_types:
\* every definition of the model has the parameters (int x, color y)
get_parameter_types(prototype) == [x |-> "int", y |-> "color"]

\* argument_type_matches_parameter_type
argument_type_matches_parameter_type(actual, expected) == actual = expected

\* IModule::get_version of the loaded modules: module b is of a version newer than
\* those the switch at lines 335-349 lists
get_version(name) ==
    IF name = NameA THEN <<1, 3>>
    ELSE IF name = NameB THEN <<1, 5>>
    ELSE <<1, 0>>

\* the element stored under a tag
Access(reg, tag) == CHOOSE e \in reg : e.tag = tag

\* the MDL name of the module a definition belongs to
ModuleNameOf(reg, prototype_tag) == Tail(Access(reg, Access(reg, prototype_tag).module).name)

\* a step that keeps the version of the last prototype
MaxVersion_last(max, version) == version

\* lines 327-331: one step of the maximum over the prototypes' versions
MaxVersion(max, version) ==
    IF version[1] > max[1] THEN version
    ELSE IF version[1] = max[1] /\ version[2] > max[2] THEN <<max[1], version[2]>>
    ELSE max

\* lines 334-349: the MDL version of the new module
MdlVersion(max_major, max_minor) ==
    IF max_major = 1
    THEN CASE max_minor = 0 -> "MDL_VERSION_1_0"
           [] max_minor = 1 -> "MDL_VERSION_1_1"
           [] max_minor = 2 -> "MDL_VERSION_1_2"
           [] max_minor = 3 -> "MDL_VERSION_1_3"
           [] max_minor = 4 -> "MDL_VERSION_1_4"
           [] OTHER         -> "MDL_LATEST_VERSION"
    ELSE "MDL_LATEST_VERSION"

\* a check of the names of the defaults that leaves their types alone
CheckDefaults_no_type_check(defaults, expected_types, i) ==
    IF \E k \in i..Len(defaults) : defaults[k].name \notin DOMAIN expected_types
    THEN -6
    ELSE 0

\* lines 988-1000 of add_variant: the defaults name parameters of the prototype and
\* have their types; 0 if all do
RECURSIVE CheckDefaults(_, _, _)
CheckDefaults(defaults, expected_types, i) ==
    IF i > Len(defaults) THEN 0
    ELSE IF defaults[i].name \notin DOMAIN expected_types THEN -6
    ELSE IF ~argument_type_matches_parameter_type(
                defaults[i].type, expected_types[defaults[i].name]) THEN -7
    ELSE CheckDefaults(defaults, expected_types, i + 1)

\* add_variant: converted says whether int_expr_to_mdl_ast_expr() converts the
\* defaults, annotations is the status of create_annotations()
add_variant(prototype, defaults, converted, annotations) ==
    IF CheckDefaults(defaults, get_parameter_types(prototype), 1) # 0
    THEN CheckDefaults(defaults, get_parameter_types(prototype), 1)
    ELSE IF \E k \in 1..Len(defaults) : ~converted THEN -8
    ELSE annotations

\* lines 285-305: name validation and existence check
CreateModuleFromVariants ==
    \E name \in VariantRequestNames, variant_count \in 0..MaxVariants :
       /\ StartCall("variants", name)
       /\ IF ~NameAccepted("variants", name)
          THEN /\ Returned("variants", name, -1, "invalid_name")
               /\ did' = {}
               /\ UNCHANGED builder
          ELSE IF ExistenceCheck(registry, add_mdl_db_prefix(name)) # 0
          THEN /\ Returned("variants", name,
                           ExistenceCheck(registry, add_mdl_db_prefix(name)),
                           ExistenceCause(ExistenceCheck(registry, add_mdl_db_prefix(name))))
               /\ did' = {"lookup"}
               /\ UNCHANGED builder
          ELSE /\ top' = Running("variants", name)
               /\ builder' = [NoBuilder EXCEPT !.pc = "versions", !.count = variant_count]
               /\ did' = {"lookup"}
               /\ UNCHANGED created
       /\ messages' = <<>>
       /\ ret' = NoRet
       /\ UNCHANGED <<registry, next_tag, stack, restored,
                 material_vars>>

\* lines 309-332: one iteration of the loop that detects the MDL version; the
\* prototype of variant_data[i] is read here for the first time
Variants_version ==
    /\ builder.pc = "versions"
    /\ builder.i < builder.count
    /\ \E prototype_name \in PrototypeNames :
         LET prototype_tag == name_to_tag(registry, prototype_name)
             class_id == get_class_id(registry, prototype_tag)
         IN  /\ prototype_tag # 0
             /\ IF class_id \notin {ID_MATERIAL, ID_FUNCTION}
                THEN /\ Returned("variants", top.name, -5, "prototype_kind")
                     /\ builder' = [NoBuilder EXCEPT !.i = builder.i]
                ELSE LET max == MaxVersion(<<builder.max_major, builder.max_minor>>,
                                    get_version(ModuleNameOf(registry, prototype_tag)))
                     IN  /\ builder' = [builder EXCEPT
                                          !.i = @ + 1,
                                          !.prototypes = Append(@, prototype_tag),
                                          !.max_major = max[1],
                                          !.max_minor = max[2]]
                         /\ UNCHANGED <<top, created>>
    /\ UNCHANGED <<registry, next_tag, stack, ret, messages, did, reg0, restored,
                 material_vars>>

\* lines 334-355: the version is known; create the empty module
Variants_create ==
    /\ builder.pc = "versions"
    /\ builder.i = builder.count
    /\ builder' = [builder EXCEPT
                      !.pc = "add", !.i = 0,
                      !.version = MdlVersion(builder.max_major, builder.max_minor)]
    /\ UNCHANGED <<registry, next_tag, top, stack, ret, messages, did, reg0, created, restored,
                 material_vars>>

\* lines 358-391: one iteration of the loop that adds the variants
Variants_add ==
    /\ builder.pc = "add"
    /\ builder.i < builder.count
    /\ \E defaults \in DefaultLists, converted \in BOOLEAN, annotations \in {0, -9, -10} :
         LET prototype_tag == builder.prototypes[builder.i + 1]
             class_id == get_class_id(registry, prototype_tag)
             status == add_variant(prototype_tag, defaults, converted, annotations)
             import == ModuleNameOf(registry, prototype_tag)
             variant == Def(top.name, VariantNames[builder.i + 1], TRUE)
         IN  IF status # 0
             THEN /\ Returned("variants", top.name, status, "add_variant")
                  /\ builder' = [NoBuilder EXCEPT !.i = builder.i, !.defaults = defaults]
             ELSE /\ builder' = [builder EXCEPT
                       !.i = @ + 1,
                       !.imports = IF \E k \in 1..Len(@) : @[k] = import
                                   THEN @ ELSE Append(@, import),
                       !.functions = IF class_id = ID_FUNCTION THEN Append(@, variant) ELSE @,
                       !.materials = IF class_id = ID_MATERIAL THEN Append(@, variant) ELSE @]
                  /\ UNCHANGED <<top, created>>
    /\ UNCHANGED <<registry, next_tag, stack, ret, messages, did, reg0, restored,
                 material_vars>>

\* lines 393-405: add the imports, analyze the module, call create_module_internal
Variants_analyze ==
    /\ builder.pc = "add"
    /\ builder.i = builder.count
    /\ \E module_messages \in MsgLists :
         IF ~is_valid(module_messages)
         THEN /\ Returned("variants", top.name, -8, "analysis_failed")
              /\ messages' = messages \o module_messages
              /\ UNCHANGED stack
         ELSE /\ stack' = <<[Frame(top.name,
                                   {[imports |-> builder.imports,
                                     functions |-> builder.functions,
                                     materials |-> builder.materials]}, FALSE)
                                 EXCEPT !.analyzed = TRUE]>>
              /\ UNCHANGED <<top, created, messages>>
    /\ builder' = NoBuilder
    /\ UNCHANGED <<registry, next_tag, ret, did, reg0, restored,
                 material_vars>>

----------------------------------------------------------------------------
(* create_module_internal *)

\* a failing invocation that undoes what the call has stored so far
KeptOnFailure_rollback(reg, start) == start

\* the registry after a failing return: no return statement of create_module_internal
\* removes an element, so everything stored so far stays
KeptOnFailure(reg, start) == reg

\* a scope object that is declared after the compilation only
InDropImportScope_after_compile(cause) ==
    cause \in {"import_wrong_kind", "import_failed", "definition_name_in_use", "stored"}

\* lines 1264-1391: the return statements after the declaration of the
\* Drop_import_scope at line 1264, by their cause
InDropImportScope(cause) ==
    cause \notin {"invalid_module", "exists", "name_in_use_wrong_kind", "restore_imports"}

\* a return statement of the innermost invocation: the destructor of the
\* Drop_import_scope, if the return is in its scope, calls drop_import_entries() once
\* (dropped counts the calls); *module_tag is set where a tag is passed
Leave(status, tag, cause, inner) ==
    /\ stack' = Pop(stack)
    /\ ret' = [set |-> TRUE, status |-> status, tag |-> IF Top.out THEN tag ELSE 0,
               cause |-> cause, inner |-> inner.status, inner_cause |-> inner.cause,
               dropped |-> IF InDropImportScope(cause) THEN 1 ELSE 0]
    /\ restored' = IF InDropImportScope(cause) THEN restored \ {Top.module} ELSE restored
    /\ registry' = IF status < 0 THEN KeptOnFailure(registry, reg0) ELSE registry

\* a generated code that fails only when it carries more than one error message
CodeFailed_more_than_one(code_messages) == get_error_message_count(code_messages) > 1

\* line 1275: error messages of the generated code are compilation failures
CodeFailed(code_messages) == get_error_message_count(code_messages) > 0

\* lines 1221-1287: validity, existence check, restore of the import entries,
\* DAG compilation, error messages of the generated code
Internal_begin ==
    /\ stack # <<>>
    /\ Top.pc = "begin"
    /\ \E module_messages \in {l \in MsgLists : Top.analyzed => is_valid(l)} :
         LET reported == messages \o module_messages
             db_module_name == add_mdl_db_prefix(Top.module)
             exists == ExistenceCheck(registry, db_module_name)
         IN  \/ \* !module->is_valid()
                /\ ~is_valid(module_messages)
                /\ Leave(-2, 0, "invalid_module", NoRet)
                /\ messages' = reported
                /\ did' = did
             \/ \* the DB name is in use
                /\ is_valid(module_messages)
                /\ exists # 0
                /\ Leave(exists,
                         IF exists = 1 THEN name_to_tag(registry, db_module_name) ELSE 0,
                         ExistenceCause(exists), NoRet)
                /\ messages' = reported
                /\ did' = did \cup {"lookup"}
             \/ \* restore_import_entries() fails
                /\ is_valid(module_messages)
                /\ exists = 0
                /\ Leave(-4, 0, "restore_imports", NoRet)
                /\ messages' = reported
                /\ did' = did \cup {"lookup"}
             \/ \* compile() returns no code
                /\ is_valid(module_messages)
                /\ exists = 0
                /\ Leave(-2, 0, "no_code", NoRet)
                /\ messages' = reported
                /\ did' = did \cup {"lookup", "compile"}
             \/ \* compile() returns code
                /\ is_valid(module_messages)
                /\ exists = 0
                /\ did' = did \cup {"lookup", "compile"}
                /\ \E code_messages \in MsgLists :
                     /\ messages' = reported \o code_messages
                     /\ IF CodeFailed(code_messages)
                        THEN Leave(-2, 0, "code_errors", NoRet)
                        ELSE /\ \E c \in Top.choices :
                                  stack' = ReplaceTop(stack,
                                      [Top EXCEPT
                                          !.pc = "imports",
                                          !.import_names = c.imports,
                                          !.functions = c.functions,
                                          !.materials = c.materials,
                                          !.errors = get_error_message_count(code_messages),
                                          !.warnings = Len(code_messages)
                                                       - get_error_message_count(code_messages)])
                             /\ restored' = restored \cup {Top.module}
                             /\ ret' = NoRet
                             /\ UNCHANGED registry
    /\ UNCHANGED <<next_tag, top, reg0, created, builder,
                 material_vars>>

\* an iteration that calls create_module_internal for every import
Internal_import_always_calls ==
    /\ stack # <<>>
    /\ Top.pc = "imports"
    /\ Top.i < Len(Top.import_names)
    /\ LET import == Top.import_names[Top.i + 1]
       IN  stack' = Append(ReplaceTop(stack, [Top EXCEPT !.pc = "call"]),
                           Frame(import, Contents(import), TRUE))
    /\ did' = did \cup {"lookup"}
    /\ UNCHANGED <<registry, ret, restored, next_tag, top, messages, reg0, created, builder,
                   material_vars>>

\* lines 1289-1300 and 1307: one iteration of the import loop up to the recursive call
Internal_import ==
    /\ stack # <<>>
    /\ Top.pc = "imports"
    /\ Top.i < Len(Top.import_names)
    /\ LET import == Top.import_names[Top.i + 1]
           import_tag == name_to_tag(registry, add_mdl_db_prefix(import))
       IN  IF import_tag # 0
           THEN IF get_class_id(registry, import_tag) # ID_MODULE
                THEN Leave(-3, 0, "import_wrong_kind", NoRet)
                ELSE /\ stack' = ReplaceTop(stack,
                            [Top EXCEPT !.imports = Append(@, import_tag), !.i = @ + 1])
                     /\ UNCHANGED <<registry, ret, restored>>
           ELSE /\ stack' = Append(ReplaceTop(stack, [Top EXCEPT !.pc = "call"]),
                                   Frame(import, Contents(import), TRUE))
                /\ UNCHANGED <<registry, ret, restored>>
    /\ did' = did \cup {"lookup"}
    /\ UNCHANGED <<next_tag, top, messages, reg0, created, builder,
                 material_vars>>

\* an outer invocation that passes on the status of the failed import
ImportFailed_passes_inner(inner) == inner

\* line 1304: the status the outer invocation returns for a failed import
ImportFailed(inner) == -4

\* lines 1301-1307: the recursive call for an import has returned
Internal_import_returned ==
    /\ stack # <<>>
    /\ Top.pc = "call"
    /\ ret.set
    /\ IF ret.status < 0
       THEN Leave(ImportFailed(ret.status), 0, "import_failed", ret)
       ELSE /\ stack' = ReplaceTop(stack,
                   [Top EXCEPT !.pc = "imports", !.imports = Append(@, ret.tag), !.i = @ + 1])
            /\ ret' = NoRet
            /\ UNCHANGED <<registry, restored>>
    /\ UNCHANGED <<next_tag, top, messages, did, reg0, created, builder,
                 material_vars>>

\* the DB names of a list of DAG entries
DbNames(defs) == [k \in 1..Len(defs) |-> add_mdl_db_prefix(defs[k].name)]

\* a name check that looks at the exported entries only
NameInUse_exported_only(reg, defs) ==
    \E k \in 1..Len(defs) : defs[k].exported /\ name_to_tag(reg, DbNames(defs)[k]) # 0

\* lines 1315-1324 and 1331-1340: some entry's DB name is already in use
NameInUse(reg, defs) ==
    \E k \in 1..Len(defs) : name_to_tag(reg, DbNames(defs)[k]) # 0

\* lines 1310-1353: the import loop is over; compute and check the DB names of the
\* function and material definitions
Internal_names ==
    /\ stack # <<>>
    /\ Top.pc = "imports"
    /\ Top.i = Len(Top.import_names)
    /\ IF NameInUse(registry, Top.functions) \/ NameInUse(registry, Top.materials)
       THEN Leave(-3, 0, "definition_name_in_use", NoRet)
       ELSE /\ stack' = ReplaceTop(stack, [Top EXCEPT !.pc = "store_module"])
            /\ UNCHANGED <<registry, ret, restored>>
    /\ UNCHANGED <<next_tag, top, messages, did, reg0, created, builder,
                 material_vars>>

\* lines 1355-1361: store the module
Internal_store_module ==
    /\ stack # <<>>
    /\ Top.pc = "store_module"
    /\ registry' = registry \cup
          {Element(next_tag, add_mdl_db_prefix(Top.module), ID_MODULE, TRUE, Top.imports, 0)}
    /\ next_tag' = next_tag + 1
    /\ stack' = ReplaceTop(stack, [Top EXCEPT !.pc = "store_definitions",
                                              !.db_module_tag = next_tag])
    /\ did' = did \cup {"store"}
    /\ UNCHANGED <<top, ret, messages, reg0, created, restored, builder,
                 material_vars>>

\* lines 1364-1374: one iteration of the loop storing the function definitions
Internal_store_function ==
    /\ stack # <<>>
    /\ Top.pc = "store_definitions"
    /\ Top.jf < Len(Top.functions)
    /\ LET def == Top.functions[Top.jf + 1]
       IN  registry' = registry \cup
              {Element(next_tag, add_mdl_db_prefix(def.name), ID_FUNCTION, def.exported,
                       <<>>, Top.db_module_tag)}
    /\ next_tag' = next_tag + 1
    /\ stack' = ReplaceTop(stack, [Top EXCEPT !.jf = @ + 1])
    /\ UNCHANGED <<top, ret, messages, did, reg0, created, restored, builder,
                 material_vars>>

\* lines 1377-1387: one iteration of the loop storing the material definitions
Internal_store_material ==
    /\ stack # <<>>
    /\ Top.pc = "store_definitions"
    /\ Top.jf = Len(Top.functions)
    /\ Top.jm < Len(Top.materials)
    /\ LET def == Top.materials[Top.jm + 1]
       IN  registry' = registry \cup
              {Element(next_tag, add_mdl_db_prefix(def.name), ID_MATERIAL, def.exported,
                       <<>>, Top.db_module_tag)}
    /\ next_tag' = next_tag + 1
    /\ stack' = ReplaceTop(stack, [Top EXCEPT !.jm = @ + 1])
    /\ UNCHANGED <<top, ret, messages, did, reg0, created, restored, builder,
                 material_vars>>

\* lines 1389-1391: all definitions are stored
Internal_done ==
    /\ stack # <<>>
    /\ Top.pc = "store_definitions"
    /\ Top.jf = Len(Top.functions)
    /\ Top.jm = Len(Top.materials)
    /\ Leave(0, Top.db_module_tag, "stored", NoRet)
    /\ UNCHANGED <<next_tag, top, messages, did, reg0, created, builder,
                 material_vars>>

----------------------------------------------------------------------------
(* add_material: the argument tree of the prototype call.  An expression is a  *)
(* record; a call carries its arguments, and each argument the modifier of the  *)
(* parameter type its callee declares for it.  An expression is identified by   *)
(* its position: the argument indices that lead to it from the prototype call.  *)

ID_FUNCTION_CALL     == "Mdl_function_call"
ID_MATERIAL_INSTANCE == "Mdl_material_instance"

\* the type modifiers of a parameter: IType::MK_UNIFORM, MK_VARYING or none
Modifiers == {"MK_NONE", "MK_UNIFORM", "MK_VARYING"}

\* the argument names of a call, by position
ArgNames == <<"x", "y">>

\* the semantics and properties of the function definitions of the model, with
\* the modifier of the return type of the call
FunctionFlavours ==
    {[semantic |-> "DS_UNKNOWN", is_varying |-> TRUE, ret_uniform |-> FALSE],
     [semantic |-> "DS_UNKNOWN", is_varying |-> FALSE, ret_uniform |-> FALSE],
     [semantic |-> "DS_UNKNOWN", is_varying |-> TRUE, ret_uniform |-> TRUE],
     [semantic |-> "DS_INTRINSIC_DAG_FIELD_ACCESS", is_varying |-> TRUE, ret_uniform |-> FALSE]}

\* the ternary operator
Ternary == [semantic |-> "OK_TERNARY", is_varying |-> FALSE, ret_uniform |-> FALSE]

\* an expression
Expr(kind, class_id, flavour, arguments) ==
    [kind |-> kind, class_id |-> class_id, semantic |-> flavour.semantic,
     is_varying |-> flavour.is_varying, ret_uniform |-> flavour.ret_uniform,
     arguments |-> arguments]

NoFlavour == [semantic |-> "DS_UNKNOWN", is_varying |-> FALSE, ret_uniform |-> FALSE]

\* constants, parameter references and temporary references
LeafExprs ==
    {Expr(kind, "none", NoFlavour, <<>>) : kind \in {"EK_CONSTANT", "EK_PARAMETER", "EK_TEMPORARY"}}

\* the calls: a call of a DB element (function call, material instance or
\* something else) or a direct call of a definition
CallHeads ==
    {[kind |-> "EK_CALL", class_id |-> ID_FUNCTION_CALL, flavour |-> f] :
        f \in FunctionFlavours \cup {Ternary}}
    \cup {[kind |-> "EK_DIRECT_CALL", class_id |-> ID_FUNCTION, flavour |-> f] :
             f \in FunctionFlavours \cup {Ternary}}
    \cup {[kind |-> k[1], class_id |-> k[2], flavour |-> NoFlavour] :
             k \in {<<"EK_CALL", ID_MATERIAL_INSTANCE>>, <<"EK_DIRECT_CALL", ID_MATERIAL>>,
                    <<"EK_CALL", ID_OTHER>>, <<"EK_DIRECT_CALL", ID_OTHER>>}}

\* the modifiers of the parameter types of the callee: the ternary operator of the
\* model has its condition and one more parameter, both without modifier, every
\* other callee has one parameter
ParameterModifiers(head) ==
    IF head.flavour.semantic = "OK_TERNARY"
    THEN {<<"MK_NONE", "MK_NONE">>}
    ELSE {<<m>> : m \in Modifiers}

\* the argument lists for the parameters over a set of expressions: the first
\* argument is any of the expressions, a further one is a leaf
ArgLists(modifiers, exprs) ==
    {[k \in 1..Len(modifiers) |->
         [name |-> ArgNames[k], modifier |-> modifiers[k], expr |-> c[k]]] :
        c \in {d \in [1..Len(modifiers) -> exprs] :
                  \A k \in 2..Len(modifiers) : d[k] \in LeafExprs}}

\* the expressions of at most the given nesting depth
RECURSIVE Exprs(_)
Exprs(depth) ==
    IF depth = 1 THEN LeafExprs
    ELSE LeafExprs \cup
         {Expr(ha[1].kind, ha[1].class_id, ha[1].flavour, ha[2]) :
             ha \in UNION {{h} \X UNION {ArgLists(m, Exprs(depth - 1)) :
                                            m \in ParameterModifiers(h)} :
                              h \in CallHeads}}

\* the prototype calls: one argument named a, of at most the given nesting depth
Callees(depth) ==
    {[arguments |-> <<[name |-> "a", modifier |-> m, expr |-> e]>>] :
        m \in Modifiers, e \in Exprs(depth)}

\* the paths of the parameters to promote, as token sequences
Paths ==
    {<<"a">>, <<"b">>, <<"a", ".", "x">>, <<"a", ".", "y">>, <<"a", ".", "x", ".", "x">>}

\* IExpression_list::get_expression( name): the index of the argument, 0 for none
get_index(arguments, name) ==
    IF \E k \in 1..Len(arguments) : arguments[k].name = name
    THEN CHOOSE k \in 1..Len(arguments) : arguments[k].name = name
    ELSE 0

\* the expression at a position of the argument tree
RECURSIVE ExprAt(_, _)
ExprAt(arguments, position) ==
    IF Len(position) = 1 THEN arguments[position[1]].expr
    ELSE ExprAt(arguments[position[1]].expr.arguments, Tail(position))

\* the argument record (name, parameter modifier, expression) at a position
RECURSIVE ArgAt(_, _)
ArgAt(arguments, position) ==
    IF Len(position) = 1 THEN arguments[position[1]]
    ELSE ArgAt(arguments[position[1]].expr.arguments, Tail(position))

----------------------------------------------------------------------------
(* find_path *)

\* std::string::find( '.', from): the index of the first '.' at or after from, 0 for npos
RECURSIVE find_dot(_, _)
find_dot(path, from) ==
    IF from > Len(path) THEN 0
    ELSE IF path[from] = "." THEN from
    ELSE find_dot(path, from + 1)

\* std::string::substr: the characters from index from up to the '.' at index dot
segment(path, from, dot) ==
    LET last == IF dot = 0 THEN Len(path) ELSE dot - 1
    IN  IF last < from THEN "" ELSE path[from]

\* the loop over the remaining segments where every call of a DB element is entered
RECURSIVE find_path_loop_any_call(_, _, _, _)
find_path_loop_any_call(arguments, path, position, pos) ==
    IF pos = 0 THEN position
    ELSE LET p == find_dot(path, pos + 1)
             arg == segment(path, pos + 1, p)
             expr == ExprAt(arguments, position)
             index == get_index(expr.arguments, arg)
         IN  IF expr.kind \notin {"EK_CALL", "EK_DIRECT_CALL"} THEN <<>>
             ELSE IF index = 0 THEN <<>>
             ELSE find_path_loop_any_call(arguments, path, Append(position, index), p)

\* lines 426-468: the loop over the remaining segments; position is the expression
\* reached so far, pos the index of the '.' before the next segment; <<>> is "not found"
RECURSIVE find_path_loop(_, _, _, _)
find_path_loop(arguments, path, position, pos) ==
    IF pos = 0 THEN position
    ELSE LET p == find_dot(path, pos + 1)
             arg == segment(path, pos + 1, p)
             expr == ExprAt(arguments, position)
             descends ==
                \/ expr.kind = "EK_CALL"
                     /\ expr.class_id \in {ID_FUNCTION_CALL, ID_MATERIAL_INSTANCE}
                \/ expr.kind = "EK_DIRECT_CALL"
             index == get_index(expr.arguments, arg)
         IN  IF ~descends THEN <<>>
             ELSE IF index = 0 THEN <<>>
             ELSE find_path_loop(arguments, path, Append(position, index), p)

\* find_path: the position of the expression the path points to, <<>> if there is none
find_path(path, arguments) ==
    LET pos == find_dot(path, 1)
        param == segment(path, 1, pos)
        index == get_index(arguments, param)
    IN  IF index = 0 THEN <<>>
        ELSE find_path_loop(arguments, path, <<index>>, pos)

\* a lookup that fails once an earlier lookup has reached a nested argument
Resolution_stateful(path, arguments, log) ==
    IF \E r \in log : Len(r.result) >= 2 THEN <<>> ELSE find_path(path, arguments)

\* lines 414-424: find_path is a static function of its arguments; every lookup starts
\* from the argument list it is given, whatever was looked up before (log)
Resolution(path, arguments, log) == find_path(path, arguments)

\* a call of find_path; again tells that the path has been resolved before
Resolve ==
    /\ \E path \in Paths :
         resolved' = resolved \cup
             {[path |-> path,
               result |-> Resolution(path, callee.arguments, resolved),
               again |-> \E r \in resolved : r.path = path]}
    /\ UNCHANGED <<callee, driver_vars, analysis, synth, factory>>

----------------------------------------------------------------------------
(* can_enforce_uniform *)

\* mi::mdl::semantic_is_operator
semantic_is_operator(semantic) == semantic \in {"OK_TERNARY"}

\* is_uniform_function
is_uniform_function(def) ==
    IF def.semantic \in {"DS_INTRINSIC_DAG_FIELD_ACCESS", "DS_INTRINSIC_DAG_ARRAY_CONSTRUCTOR",
                         "DS_INTRINSIC_DAG_INDEX_ACCESS", "DS_INTRINSIC_DAG_ARRAY_LENGTH",
                         "DS_INTRINSIC_DAG_SET_OBJECT_ID", "DS_INTRINSIC_DAG_SET_TRANSFORMS"}
    THEN TRUE
    ELSE IF semantic_is_operator(def.semantic) THEN TRUE
    ELSE ~def.is_varying

\* what one iteration does with the popped entry: ok is FALSE for "return false",
\* push are the entries it appends to the queue
Verdict(ok, push) == [ok |-> ok, push |-> push]

\* a constant that conflicts with a uniform requirement
ProcessConstant_conflict(is_uniform) == Verdict(~is_uniform, <<>>)

\* lines 573-575: constants are always uniform
ProcessConstant(is_uniform) == Verdict(TRUE, <<>>)

\* a conflict rule that does not look at the return type of the call
auto_must_be_uniform_ignores_return(expr, is_uniform) ==
    IF is_uniform
    THEN IF ~is_uniform_function(expr) THEN "conflict" ELSE "TRUE"
    ELSE "FALSE"

\* lines 595-608 and 658-671: the function call conflicts, or its parameters marked
\* auto must be uniform; the result is "conflict", TRUE or FALSE
auto_must_be_uniform(expr, is_uniform) ==
    IF is_uniform
    THEN IF expr.ret_uniform THEN "FALSE"
         ELSE IF ~is_uniform_function(expr) THEN "conflict"
         ELSE "TRUE"
    ELSE "FALSE"

\* the entries for the arguments where the modifier varying of a parameter is ignored
PushArguments_ignores_varying(position, expr, auto, is_ternary) ==
    [i \in 1..Len(expr.arguments) |->
        [expr |-> Append(position, i),
         is_uniform |-> auto \/ (is_ternary /\ i = 1)
                             \/ expr.arguments[i].modifier = "MK_UNIFORM"]]

\* the entries for the arguments where the modifier uniform of a parameter is ignored
PushArguments_auto_only(position, expr, auto, is_ternary) ==
    [i \in 1..Len(expr.arguments) |->
        [expr |-> Append(position, i),
         is_uniform |-> expr.arguments[i].modifier # "MK_VARYING" /\ auto]]

\* lines 613-632 and 673-684: the entries for the arguments of a function call
PushArguments(position, expr, auto, is_ternary) ==
    [i \in 1..Len(expr.arguments) |->
        LET p_is_uniform == (is_ternary /\ i = 1) \/ expr.arguments[i].modifier = "MK_UNIFORM"
            p_is_varying == ~(is_ternary /\ i = 1) /\ expr.arguments[i].modifier = "MK_VARYING"
        IN  [expr |-> Append(position, i),
             is_uniform |-> ~p_is_varying /\ (auto \/ p_is_uniform)]]

\* a call of a DB element where a material instance never conflicts
ProcessCall_material_passes(position, expr, is_uniform) ==
    IF expr.class_id = ID_FUNCTION_CALL
    THEN IF auto_must_be_uniform(expr, is_uniform) = "conflict"
         THEN Verdict(FALSE, <<>>)
         ELSE Verdict(TRUE, PushArguments(position, expr,
                                          auto_must_be_uniform(expr, is_uniform) = "TRUE",
                                          expr.semantic = "OK_TERNARY"))
    ELSE Verdict(expr.class_id = ID_MATERIAL_INSTANCE, <<>>)

\* lines 576-638: a call of a DB element
ProcessCall(position, expr, is_uniform) ==
    IF expr.class_id = ID_MATERIAL_INSTANCE
    THEN Verdict(~is_uniform, <<>>)
    ELSE IF expr.class_id = ID_FUNCTION_CALL
    THEN IF auto_must_be_uniform(expr, is_uniform) = "conflict"
         THEN Verdict(FALSE, <<>>)
         ELSE Verdict(TRUE, PushArguments(position, expr,
                                          auto_must_be_uniform(expr, is_uniform) = "TRUE",
                                          expr.semantic = "OK_TERNARY"))
    ELSE Verdict(FALSE, <<>>)

\* lines 643-690: a direct call of a definition
ProcessDirectCall(position, expr, is_uniform) ==
    IF expr.class_id = ID_MATERIAL
    THEN Verdict(FALSE, <<>>)
    ELSE IF expr.class_id = ID_FUNCTION
    THEN IF auto_must_be_uniform(expr, is_uniform) = "conflict"
         THEN Verdict(FALSE, <<>>)
         ELSE Verdict(TRUE, PushArguments(position, expr,
                                          auto_must_be_uniform(expr, is_uniform) = "TRUE",
                                          FALSE))
    ELSE Verdict(FALSE, <<>>)

\* references that fail only when they are required to be uniform
ProcessReference_passes(is_uniform) == Verdict(~is_uniform, <<>>)

\* lines 639-642 and 691-694: parameter and temporary references
ProcessReference(is_uniform) == Verdict(FALSE, <<>>)

\* lines 572-699: the switch over the kind of the popped expression
Process(arguments, entry) ==
    LET expr == ExprAt(arguments, entry.expr)
    IN  CASE expr.kind = "EK_CONSTANT" -> ProcessConstant(entry.is_uniform)
          [] expr.kind = "EK_CALL" -> ProcessCall(entry.expr, expr, entry.is_uniform)
          [] expr.kind = "EK_PARAMETER" -> ProcessReference(entry.is_uniform)
          [] expr.kind = "EK_DIRECT_CALL" -> ProcessDirectCall(entry.expr, expr, entry.is_uniform)
          [] expr.kind = "EK_TEMPORARY" -> ProcessReference(entry.is_uniform)

\* a start where every parameter that is not declared varying counts as uniform
RootIsUniform_not_varying(modifier) == modifier # "MK_VARYING"

\* lines 550-551: is_uniform of the first entry, from the modifiers of the parameter type
RootIsUniform(modifier) == modifier = "MK_UNIFORM"

\* add_material, lines 781-789, and can_enforce_uniform, lines 541-558: resolve the
\* path of a parameter and start the analysis with the top-level argument
Promote ==
    /\ analysis.pc \in {"idle", "done"}
    /\ \E path \in Paths :
         LET p_expr == find_path(path, callee.arguments)
             param == segment(path, 1, find_dot(path, 1))
             index == get_index(callee.arguments, param)
         IN  IF p_expr = <<>>
             THEN analysis' = [NoAnalysis EXCEPT !.pc = "done", !.path = path, !.status = -13]
             ELSE analysis' = [NoAnalysis EXCEPT
                     !.pc = "running", !.path = path, !.found = TRUE, !.p_expr = p_expr,
                     !.queue = <<[expr |-> <<index>>,
                                  is_uniform |->
                                      RootIsUniform(callee.arguments[index].modifier)]>>]
    /\ UNCHANGED <<callee, driver_vars, resolved, synth, factory>>

\* a flag that tells whether the entry popped last is the required target
MustBeUniform_last_entry(must_be_uniform, e, p_expr) == e.is_uniform /\ e.expr = p_expr

\* lines 566-570: must_be_uniform after an entry is popped
MustBeUniform(must_be_uniform, e, p_expr) ==
    must_be_uniform \/ (e.is_uniform /\ e.expr = p_expr)

\* an iteration that pops nothing
Analyze_stalls ==
    /\ analysis.pc = "running"
    /\ analysis.queue # <<>>
    /\ UNCHANGED vars

\* lines 559-700: one iteration of the loop over the queue
Analyze ==
    /\ analysis.pc = "running"
    /\ analysis.queue # <<>>
    /\ LET e == Head(analysis.queue)
           verdict == Process(callee.arguments, e)
           must == MustBeUniform(analysis.must_be_uniform, e, analysis.p_expr)
       IN  IF verdict.ok
           THEN analysis' = [analysis EXCEPT
                   !.queue = Tail(@) \o verdict.push,
                   !.must_be_uniform = must,
                   !.last = e,
                   !.popped = Append(@, e)]
           ELSE analysis' = [analysis EXCEPT
                   !.pc = "done", !.queue = Tail(@), !.must_be_uniform = must,
                   !.ok = FALSE, !.status = -15, !.last = e,
                   !.popped = Append(@, e)]
    /\ UNCHANGED <<callee, driver_vars, resolved, synth, factory>>

\* line 702: the queue is empty
Analyzed ==
    /\ analysis.pc = "running"
    /\ analysis.queue = <<>>
    /\ analysis' = [analysis EXCEPT !.pc = "done", !.ok = TRUE, !.status = 0]
    /\ UNCHANGED <<callee, driver_vars, resolved, synth, factory>>

----------------------------------------------------------------------------
(* add_material *)

\* the m_path of the parameters of a new material
RequestPaths == {<<"a">>, <<"a", ".", "x">>, <<"b">>}

\* the m_name of the parameters of a new material, by position: the parameters of a
\* material have distinct names
ParameterNames == <<"p", "q", "r", "s">>

\* IType::Kind: the resource types and another type
TypeKinds == {"TK_TEXTURE", "TK_LIGHT_PROFILE", "TK_BSDF_MEASUREMENT", "TK_INT"}

\* lines 559-702: the loop over the queue, to its end
RECURSIVE can_enforce_uniform_loop(_, _, _, _)
can_enforce_uniform_loop(arguments, p_expr, queue, must_be_uniform) ==
    IF queue = <<>> THEN [ok |-> TRUE, must_be_uniform |-> must_be_uniform]
    ELSE LET e == Head(queue)
             verdict == Process(arguments, e)
             must == MustBeUniform(must_be_uniform, e, p_expr)
         IN  IF verdict.ok
             THEN can_enforce_uniform_loop(arguments, p_expr, Tail(queue) \o verdict.push, must)
             ELSE [ok |-> FALSE, must_be_uniform |-> must]

\* lines 533-703: the value can_enforce_uniform returns and must_be_uniform
can_enforce_uniform(arguments, path, p_expr) ==
    LET index == get_index(arguments, segment(path, 1, find_dot(path, 1)))
    IN  can_enforce_uniform_loop(
            arguments, p_expr,
            <<[expr |-> <<index>>, is_uniform |-> RootIsUniform(arguments[index].modifier)]>>,
            FALSE)

\* a loop over the requests that accepts an argument that cannot be enforced uniform
RequestStatus_lenient(arguments, path) ==
    IF find_path(path, arguments) = <<>> THEN -13 ELSE 0

\* lines 781-792: the status of one request, 0 if the loop goes on
RequestStatus(arguments, path) ==
    IF find_path(path, arguments) = <<>> THEN -13
    ELSE IF ~can_enforce_uniform(arguments, path, find_path(path, arguments)).ok THEN -15
    ELSE 0

\* a type name that is qualified by the flag of the new parameter only
Qualifier_flag_only(is_uniform, kind) == IF is_uniform THEN "FQ_UNIFORM" ELSE "FQ_NONE"

\* lines 893-904: the qualifier of the type name of a parameter
Qualifier(is_uniform, kind) ==
    IF kind \in {"TK_TEXTURE", "TK_BSDF_MEASUREMENT", "TK_LIGHT_PROFILE"} THEN "FQ_UNIFORM"
    ELSE IF is_uniform THEN "FQ_UNIFORM"
    ELSE "FQ_NONE"

\* a body that is the call without arguments, whatever the prototype has
Body_call(arguments) == [kind |-> "call", declarations |-> <<>>, arguments |-> <<>>]

\* lines 844-874: the body of the new material. With arguments it is a let expression
\* with one variable declaration per argument, in the order of the arguments: the
\* k-th declares the k-th temporary symbol, initialised with the transformed k-th
\* argument, and the call gets one named argument per argument, a reference to that
\* temporary; without arguments it is the call
Body(arguments) ==
    IF Len(arguments) > 0
    THEN [kind |-> "let",
          declarations |-> [k \in 1..Len(arguments) |-> [tmp_sym |-> k, init |-> <<k>>]],
          arguments |-> [k \in 1..Len(arguments) |->
                            [name |-> arguments[k].name, ref |-> k]]]
    ELSE [kind |-> "call", declarations |-> <<>>, arguments |-> <<>>]

\* lines 763-776: the call, with the number of parameters of the new material
AddMaterial_begin ==
    /\ synth.pc = "idle"
    /\ \E has_args \in BOOLEAN, count \in 0..MaxRequests :
         synth' = IF ~has_args /\ count # 0
                  THEN [synth EXCEPT !.pc = "returned", !.status = -6,
                                     !.has_args = has_args, !.count = count]
                  ELSE [synth EXCEPT !.pc = "requests", !.has_args = has_args,
                                     !.count = count]
    /\ UNCHANGED <<callee, driver_vars, analysis, resolved, factory>>

\* lines 778-800: one iteration of the loop over md.m_parameters
AddMaterial_request ==
    /\ synth.pc = "requests"
    /\ synth.i < synth.count
    /\ \E m_path \in RequestPaths, m_enforce_uniform \in BOOLEAN :
         LET pd == [m_name |-> ParameterNames[synth.i + 1], m_path |-> m_path,
                    m_enforce_uniform |-> m_enforce_uniform]
             expr == find_path(m_path, callee.arguments)
             status == RequestStatus(callee.arguments, m_path)
             seen == [synth EXCEPT !.requests = Append(@, pd), !.i = @ + 1]
         IN  synth' =
                IF status # 0
                THEN [seen EXCEPT !.pc = "returned", !.status = status]
                ELSE [seen EXCEPT !.new_params = Append(@,
                        [sym |-> pd.m_name,
                         init |-> expr,
                         is_uniform |->
                             can_enforce_uniform(callee.arguments, m_path, expr).must_be_uniform
                             \/ m_enforce_uniform])]
    /\ UNCHANGED <<callee, driver_vars, analysis, resolved, factory>>

\* lines 802-884: the annotations of the material, the body and the declaration.
\* args->get_size() at line 845 dereferences args, which is a null handle when the
\* prototype has no arguments: the call crashes there or goes on with no parameters
AddMaterial_body ==
    /\ synth.pc = "requests"
    /\ synth.i = synth.count
    /\ \E result \in {0, -9}, null_handle \in {"crash", "n_params = 0"} :
         synth' = IF result # 0 THEN [synth EXCEPT !.pc = "returned", !.status = result]
                  ELSE IF ~synth.has_args /\ null_handle = "crash"
                  THEN [synth EXCEPT !.pc = "crashed"]
                  ELSE [synth EXCEPT
                          !.pc = "parameters", !.i = 0,
                          !.body = Body(IF synth.has_args THEN callee.arguments ELSE <<>>)]
    /\ UNCHANGED <<callee, driver_vars, analysis, resolved, factory>>

\* an iteration that puts the parameter in front of the parameters added before
AddMaterial_parameter_in_front ==
    /\ synth.pc = "parameters"
    /\ synth.i < Len(synth.new_params)
    /\ LET pd == synth.new_params[synth.i + 1]
       IN  synth' = [synth EXCEPT
                       !.i = @ + 1,
                       !.fdecl = <<[name |-> pd.sym, init |-> pd.init,
                                    qualifier |-> Qualifier(pd.is_uniform,
                                                            synth.types[Len(pd.init)])]>>
                                 \o @]
    /\ UNCHANGED <<callee, driver_vars, analysis, resolved, factory>>

\* lines 887-920: one iteration of the loop over new_params
AddMaterial_parameter ==
    /\ synth.pc = "parameters"
    /\ synth.i < Len(synth.new_params)
    /\ \E result \in {0, -9} :
         LET pd == synth.new_params[synth.i + 1]
             kind == synth.types[Len(pd.init)]
         IN  synth' = IF result # 0 THEN [synth EXCEPT !.pc = "returned", !.status = result]
                      ELSE [synth EXCEPT
                              !.i = @ + 1,
                              !.fdecl = Append(@, [name |-> pd.sym,
                                                   init |-> pd.init,
                                                   qualifier |-> Qualifier(pd.is_uniform, kind)])]
    /\ UNCHANGED <<callee, driver_vars, analysis, resolved, factory>>

\* lines 922-927: the declaration is added to the module
AddMaterial_done ==
    /\ synth.pc = "parameters"
    /\ synth.i = Len(synth.new_params)
    /\ synth' = [synth EXCEPT !.pc = "returned", !.status = 0,
                              !.declarations = Append(@, synth.fdecl)]
    /\ UNCHANGED <<callee, driver_vars, analysis, resolved, factory>>

----------------------------------------------------------------------------
(* create_texture, create_light_profile, create_bsdf_measurement *)

\* the strings passed as file_path, as sequences of characters
FileNames == {<<>>, <<"/", "t">>, <<"t">>, <<"t", "/", "u">>, <<"/">>}

\* a null pointer or a pointer to a string
FilePaths == {<<>>} \cup {<<name>> : name \in FileNames}

\* file_path[0], "" for the terminator of an empty string
FirstChar(name) == IF name = <<>> THEN "" ELSE name[1]

\* a resource function that asks the resolver before it looks at the path
create_resource_resolves_first(op, transaction, file_path, shape, shared, has_errors, tag) ==
    LET call == [NoFactory EXCEPT !.pc = "returned", !.op = op,
                    !.transaction = transaction, !.file_path = file_path, !.shape = shape,
                    !.shared = shared, !.has_errors = has_errors]
    IN  IF ~transaction \/ file_path = <<>>
        THEN [call EXCEPT !.errors = -1]
        ELSE IF tag = 0
        THEN [call EXCEPT !.resolved = TRUE, !.errors = -3]
        ELSE IF FirstChar(file_path[1]) # "/"
        THEN [call EXCEPT !.resolved = TRUE, !.tag = tag, !.errors = -2]
        ELSE [call EXCEPT !.resolved = TRUE, !.tag = tag, !.errors = 0, !.value = tag]

\* lines 1402-1427, 1436-1456, 1465-1485: the body the three functions share; tag is
\* what the resolver returns if it is called
create_resource(op, transaction, file_path, shape, shared, has_errors, tag) ==
    LET call == [NoFactory EXCEPT !.pc = "returned", !.op = op,
                    !.transaction = transaction, !.file_path = file_path, !.shape = shape,
                    !.shared = shared, !.has_errors = has_errors]
    IN  IF ~transaction \/ file_path = <<>>
        THEN [call EXCEPT !.errors = -1]
        ELSE IF FirstChar(file_path[1]) # "/"
        THEN [call EXCEPT !.errors = -2]
        ELSE IF tag = 0
        THEN [call EXCEPT !.resolved = TRUE, !.errors = -3]
        ELSE [call EXCEPT !.resolved = TRUE, !.tag = tag, !.errors = 0, !.value = tag]

\* lines 1394-1428
create_texture ==
    /\ \E transaction \in BOOLEAN, file_path \in FilePaths, shape \in {"TS_2D", "TS_CUBE"},
          shared \in BOOLEAN, has_errors \in BOOLEAN, tag \in 0..2 :
         factory' = create_resource("create_texture", transaction, file_path, shape, shared,
                                    has_errors, tag)
    /\ UNCHANGED <<callee, driver_vars, analysis, resolved, synth>>

\* lines 1430-1457
create_light_profile ==
    /\ \E transaction \in BOOLEAN, file_path \in FilePaths,
          shared \in BOOLEAN, has_errors \in BOOLEAN, tag \in 0..2 :
         factory' = create_resource("create_light_profile", transaction, file_path, "none",
                                    shared, has_errors, tag)
    /\ UNCHANGED <<callee, driver_vars, analysis, resolved, synth>>

\* lines 1459-1486
create_bsdf_measurement ==
    /\ \E transaction \in BOOLEAN, file_path \in FilePaths,
          shared \in BOOLEAN, has_errors \in BOOLEAN, tag \in 0..2 :
         factory' = create_resource("create_bsdf_measurement", transaction, file_path, "none",
                                    shared, has_errors, tag)
    /\ UNCHANGED <<callee, driver_vars, analysis, resolved, synth>>

----------------------------------------------------------------------------

Next ==
    \/ CreateModuleByName
    \/ CreateModuleFromStream
    \/ CreateModuleFromVariants
    \/ Variants_version
    \/ Variants_create
    \/ Variants_add
    \/ Variants_analyze
    \/ CreateModuleReturn
    \/ ResultTaken
    \/ Internal_begin
    \/ Internal_import
    \/ Internal_import_returned
    \/ Internal_names
    \/ Internal_store_module
    \/ Internal_store_function
    \/ Internal_store_material
    \/ Internal_done

Spec == Init /\ [][Next]_vars

\* the calls that load a module and its imports
NextImports ==
    \/ CreateModuleByName
    \/ CreateModuleFromStream
    \/ CreateModuleReturn
    \/ ResultTaken
    \/ Internal_begin
    \/ Internal_import
    \/ Internal_import_returned
    \/ Internal_names
    \/ Internal_store_module
    \/ Internal_store_function
    \/ Internal_store_material
    \/ Internal_done

\* the calls that load a module whose generated code has two entries of one name
NextDuplicates ==
    \/ CreateModuleByNameIn({NameD, NameB})
    \/ CreateModuleReturn
    \/ ResultTaken
    \/ Internal_begin
    \/ Internal_import
    \/ Internal_import_returned
    \/ Internal_names
    \/ Internal_store_module
    \/ Internal_store_function
    \/ Internal_store_material
    \/ Internal_done

SpecDuplicates == Init /\ [][NextDuplicates]_vars

\* create_module_internal is a sequential function: an invocation that is active
\* takes its next step
SpecImportsFair ==
    /\ Init
    /\ [][NextImports]_vars
    /\ WF_vars(\/ Internal_begin
               \/ Internal_import
               \/ Internal_import_returned
               \/ Internal_names
               \/ Internal_store_module
               \/ Internal_store_function
               \/ Internal_store_material
               \/ Internal_done)

\* the material synthesis for one prototype call
DriverIdle ==
    /\ registry = {}
    /\ next_tag = 1
    /\ top = NoTop
    /\ stack = <<>>
    /\ ret = NoRet
    /\ messages = <<>>
    /\ did = {}
    /\ reg0 = {}
    /\ created = {}
    /\ restored = {}
    /\ builder = NoBuilder

InitMaterial ==
    /\ callee \in Callees(MaxDepth)
    /\ analysis = NoAnalysis
    /\ resolved = NoResolved
    /\ synth = NoSynth
    /\ factory = NoFactory
    /\ DriverIdle

NextMaterial ==
    \/ Promote
    \/ Analyze
    \/ Analyzed

\* find_path reads the kinds of the expressions, the classes of the calls and the
\* names of the arguments only: the trees without modifiers and function properties
RECURSIVE IsPlain(_)
IsPlain(expr) ==
    /\ expr.semantic = "OK_TERNARY" \/ ~expr.is_varying
    /\ ~expr.ret_uniform
    /\ expr.semantic # "DS_INTRINSIC_DAG_FIELD_ACCESS"
    /\ \A k \in 1..Len(expr.arguments) :
          /\ expr.arguments[k].modifier = "MK_NONE"
          /\ IsPlain(expr.arguments[k].expr)

\* the lookups of paths in one argument list
InitPaths ==
    /\ callee \in {c \in Callees(MaxDepth) :
                      /\ c.arguments[1].modifier = "MK_NONE"
                      /\ IsPlain(c.arguments[1].expr)}
    /\ analysis = NoAnalysis
    /\ resolved = NoResolved
    /\ synth = NoSynth
    /\ factory = NoFactory
    /\ DriverIdle

NextPaths == Resolve

SpecPaths == InitPaths /\ [][NextPaths]_vars

\* the prototype calls add_material is checked with: constants, parameter references,
\* calls of a varying function and material instances
RECURSIVE IsSimple(_)
IsSimple(expr) ==
    /\ \/ expr.kind \in {"EK_CONSTANT", "EK_PARAMETER"}
       \/ expr.kind = "EK_CALL" /\ expr.class_id = ID_MATERIAL_INSTANCE
       \/ /\ expr.kind = "EK_CALL"
          /\ expr.class_id = ID_FUNCTION_CALL
          /\ expr.semantic = "DS_UNKNOWN"
          /\ expr.is_varying
          /\ ~expr.ret_uniform
    /\ \A k \in 1..Len(expr.arguments) : IsSimple(expr.arguments[k].expr)

\* the creation of one material from a prototype call
InitSynthesis ==
    /\ callee \in {c \in Callees(MaxDepth) : IsSimple(c.arguments[1].expr)} \cup {NoCallee}
    /\ \E types \in [1..2 -> TypeKinds] :
          /\ find_path(<<"a", ".", "x">>, callee.arguments) = <<>> => types[2] = "TK_INT"
          /\ synth = [NoSynth EXCEPT !.types = types]
    /\ analysis = NoAnalysis
    /\ resolved = NoResolved
    /\ factory = NoFactory
    /\ DriverIdle

NextSynthesis ==
    \/ AddMaterial_begin
    \/ AddMaterial_request
    \/ AddMaterial_body
    \/ AddMaterial_parameter
    \/ AddMaterial_done

SpecSynthesis == InitSynthesis /\ [][NextSynthesis]_vars

\* the resource factory functions
InitResources ==
    /\ callee = NoCallee
    /\ analysis = NoAnalysis
    /\ resolved = NoResolved
    /\ synth = NoSynth
    /\ factory = NoFactory
    /\ DriverIdle

NextResources ==
    \/ create_texture
    \/ create_light_profile
    \/ create_bsdf_measurement

SpecResources == InitResources /\ [][NextResources]_vars

SpecMaterial == InitMaterial /\ [][NextMaterial]_vars

\* the loop of can_enforce_uniform runs on until it returns
SpecMaterialFair == SpecMaterial /\ WF_vars(Analyze) /\ WF_vars(Analyzed)

----------------------------------------------------------------------------
(* Properties of the driver *)

\* the MDL name is bound to a module element
IsModule(reg, name) ==
    \E e \in reg : e.name = add_mdl_db_prefix(name) /\ e.class_id = ID_MODULE

\* the MDL name is bound to an element that is not a module
IsOtherKind(reg, name) ==
    \E e \in reg : e.name = add_mdl_db_prefix(name) /\ e.class_id # ID_MODULE

\* the DB names of the function and material entries of an invocation
DefinitionNames(frame) ==
    {add_mdl_db_prefix(frame.functions[k].name) : k \in 1..Len(frame.functions)}
    \cup {add_mdl_db_prefix(frame.materials[k].name) : k \in 1..Len(frame.materials)}

\* the innermost invocation is about to check its definition names
AtNameCheck ==
    /\ stack # <<>>
    /\ Top.pc = "imports"
    /\ Top.i = Len(Top.import_names)

\* C1: if a function or material name of module M, exported or local, is bound in
\* the registry when finalize checks the definition names of M, then finalize
\* returns a failure status and stores nothing: no record for M, none for its
\* definitions.
C1_ExportCollisionAtomic ==
    [][(AtNameCheck /\ DefinitionNames(Top) \cap BoundNames(registry) # {})
        => /\ stack' = Pop(stack)
           /\ ret'.set
           /\ ret'.status < 0
           /\ registry' = registry
           /\ ~IsModule(registry', Top.module)]_vars

\* a call for module a has failed on the name of a definition after it has stored
\* the imports of a
C1_Witness ==
    /\ top.pc = "returned"
    /\ top.name = NameA
    /\ top.cause = "definition_name_in_use"
    /\ top.status = -3
    /\ registry # reg0
    /\ ~IsModule(registry, NameA)

\* the name has a component, delimited by separators, that is no valid identifier
HasInvalidComponent(name) ==
    LET body == IF Len(name) >= 1 /\ name[1] = SEP THEN Tail(name) ELSE name
    IN  \/ body = <<>>
        \/ \E k \in 1..Len(body) :
              IF body[k] = SEP
              THEN k = 1 \/ k = Len(body) \/ body[k + 1] = SEP
              ELSE ~is_valid_mdl_identifier(body[k])

\* the name validation of the entry point lets the name pass
NamePasses(entry, name) ==
    \/ ~HasInvalidComponent(name)
    \/ entry = "stream" /\ name = NameNeuray

\* C2 as stated: after a call has returned 0 for the name N, every later call for N,
\* through whichever entry point, returns 1, leaves the registry unchanged and
\* invokes neither the loader nor the DAG generator.
C2_Original ==
    (top.pc # "init" /\ top.prior)
        => /\ top.pc = "returned"
           /\ top.status = 1
           /\ registry = reg0
           /\ did \cap {"load", "compile", "store"} = {}

\* C2, amended: after a call has returned 0 for the name N, every later call for N
\* through an entry point whose name validation accepts N returns 1, leaves the
\* registry unchanged and invokes neither the loader nor the DAG generator.
C2_Idempotent ==
    (top.pc # "init" /\ top.prior /\ NamePasses(top.entry, top.name))
        => /\ top.pc = "returned"
           /\ top.status = 1
           /\ registry = reg0
           /\ did \cap {"load", "compile", "store"} = {}

\* a second call for a module that an earlier call has created
C2_Witness ==
    /\ top.pc = "returned"
    /\ top.prior
    /\ top.status = 1
    /\ top.name = NameA

\* C3 as stated: whenever the DB name of the module is bound to an element that is
\* not a module, the call returns -3 and stores nothing.
C3_Original ==
    (top.pc # "init" /\ IsOtherKind(reg0, top.name))
        => /\ top.pc = "returned"
           /\ top.status = -3
           /\ registry = reg0
           /\ did \subseteq {"lookup"}

\* C3, amended: whenever the module name passes the name validation of the entry
\* point and the DB name of the module is bound to an element that is not a
\* module, the call (by name, by stream, by variants) returns -3 and stores
\* nothing, whatever the content of the module is.
C3_NameKindConflict ==
    (top.pc # "init" /\ IsOtherKind(reg0, top.name) /\ NamePasses(top.entry, top.name))
        => /\ top.pc = "returned"
           /\ top.status = -3
           /\ registry = reg0
           /\ did \subseteq {"lookup"}

\* the by-variants entry point has met a name that another kind of element uses
C3_Witness ==
    /\ top.pc = "returned"
    /\ top.entry = "variants"
    /\ top.status = -3
    /\ IsOtherKind(reg0, top.name)

\* C4: a module element is stored only by an invocation whose generated code
\* carries no error message and whose definition names are all free; a generated
\* code is a failure only if it carries an error message, so warnings alone do not
\* prevent the registration.
C4_RegistrationGating ==
    /\ [][(\E e \in registry' \ registry : e.class_id = ID_MODULE)
           => /\ stack # <<>>
              /\ Top.errors = 0
              /\ DefinitionNames(Top) \cap BoundNames(registry) = {}]_vars
    /\ []((ret.set /\ ret.cause = "code_errors") => get_error_message_count(messages) > 0)

\* a module whose generated code carries a warning has been stored
C4_Witness ==
    /\ stack # <<>>
    /\ Top.pc = "store_definitions"
    /\ Top.warnings > 0
    /\ IsModule(registry, Top.module)

\* C5 as stated: after a call has returned, its status is non-negative if and only
\* if the name of the module is bound to a module element.
C5_Original ==
    top.pc = "returned" => (top.status >= 0 <=> IsModule(registry, top.name))

\* C5, amended: after a call whose name has passed the name validation has
\* returned, its status is non-negative (0 or 1) if and only if the name of the
\* module is bound to a module element; a call whose name is rejected returns -1
\* and leaves the registry as it was.
C5_StatusTellsRegistration ==
    top.pc = "returned" =>
        IF NamePasses(top.entry, top.name)
        THEN /\ top.status >= 0 <=> IsModule(registry, top.name)
             /\ top.status >= 0 => top.status \in {0, 1}
        ELSE top.status = -1 /\ registry = reg0

\* a call has failed after it has stored imports; its module is not registered
C5_Witness ==
    /\ top.pc = "returned"
    /\ top.status < 0
    /\ registry # reg0
    /\ ~IsModule(registry, top.name)

\* C6: no step of the driver removes an element from the registry; in particular
\* the imports a finalize call has stored stay when a later import or the
\* importing module fails.
C6_PartialProgressRetained ==
    [][registry \subseteq registry']_vars

\* module a has failed on its second import b; its first import c stays registered
C6_Witness ==
    /\ top.pc = "returned"
    /\ top.name = NameA
    /\ top.cause = "import_failed"
    /\ ~IsModule(reg0, NameC)
    /\ IsModule(registry, NameC)
    /\ ~IsModule(registry, NameB)

\* C7: when the recursive finalize of an import returns a negative status, the
\* outer finalize returns -4 at once, whatever the inner status: it processes no
\* further import, stores nothing and does not call the import again.
C7_TransitiveImportFailure ==
    [][(stack # <<>> /\ Top.pc = "call" /\ ret.set /\ ret.status < 0)
        => /\ stack' = Pop(stack)
           /\ ret'.set
           /\ ret'.status = -4
           /\ registry' = registry
           /\ did' = did]_vars

\* an outer finalize has returned for an import that failed with status -2
C7_Witness ==
    /\ ret.set
    /\ ret.cause = "import_failed"
    /\ ret.inner = -2
    /\ ret.status = -4

\* C8 as stated: every entry point returns -1, before any lookup, load, compile or
\* store, for every name with a component that is no valid identifier.
C8_Original ==
    (top.pc # "init" /\ HasInvalidComponent(top.name))
        => /\ top.pc = "returned"
           /\ top.status = -1
           /\ did = {}
           /\ registry = reg0

\* C8, amended: every entry point returns -1, before any lookup, load, compile or
\* store, for every name with a component that is no valid identifier, except that
\* the by-stream entry point accepts the name "::<neuray>".
C8_NameValidation ==
    (top.pc # "init" /\ HasInvalidComponent(top.name)
       /\ ~(top.entry = "stream" /\ top.name = NameNeuray))
        => /\ top.pc = "returned"
           /\ top.status = -1
           /\ did = {}
           /\ registry = reg0

\* a name whose second component is no identifier has been rejected
C8_Witness ==
    /\ top.pc = "returned"
    /\ top.name = NameBad
    /\ top.status = -1
    /\ did = {}

\* the failure kind of the taxonomy a return statement belongs to
Kind(cause) ==
    CASE cause \in {"name_in_use_wrong_kind", "import_wrong_kind"} -> "name_wrong_kind"
      [] cause = "definition_name_in_use" -> "export_name_collision"
      [] cause \in {"load_failed", "invalid_module", "no_code", "code_errors"} -> "load_or_compile"
      [] cause = "restore_imports" -> "import_restore"
      [] cause = "import_failed" -> "transitive_import"
      [] OTHER -> "other"

\* the status code of a failure kind
KindStatus(kind) ==
    CASE kind \in {"name_wrong_kind", "export_name_collision"} -> -3
      [] kind = "load_or_compile" -> -2
      [] kind \in {"import_restore", "transitive_import"} -> -4

\* C9 as stated: distinct failure kinds are reported with distinct status codes;
\* here for an outer finalize and the import that made it fail.
C9_Original ==
    (ret.set /\ ret.cause = "import_failed" /\ Kind(ret.inner_cause) # Kind(ret.cause))
        => ret.status # ret.inner

\* C9, amended: the status code is a function of the failure kind alone, whatever
\* the message list holds, and separates three classes: -2 for a load, parse or
\* compile failure, -3 for a name used by another kind of element and for an
\* export name collision, -4 for an import restore failure and for a transitive
\* import failure.
C9_StatusClassifies ==
    /\ (ret.set /\ Kind(ret.cause) # "other") => ret.status = KindStatus(Kind(ret.cause))
    /\ (top.pc = "returned" /\ Kind(top.cause) # "other")
          => top.status = KindStatus(Kind(top.cause))

\* an export name collision is reported with -3 while the message list holds a message
C9_Witness ==
    /\ ret.set
    /\ ret.cause = "definition_name_in_use"
    /\ ret.status = -3
    /\ messages # <<>>

----------------------------------------------------------------------------
(* The uniform analyzer and constants *)

\* the path of the analysis resolved to a constant
TargetIsConstant ==
    /\ analysis.found
    /\ ExprAt(callee.arguments, analysis.p_expr).kind = "EK_CONSTANT"

\* C10 as stated: whenever the path resolves to a constant, single-segment or nested,
\* the analysis succeeds without a conflict
C10_Original ==
    (analysis.pc = "done" /\ TargetIsConstant) => analysis.ok

\* C10: the analysis of a single-segment path that resolves to a constant succeeds,
\* whatever modifier the parameter declares, and reports that the new parameter must be
\* uniform exactly if the parameter is declared uniform; under a nested path the
\* analysis covers the whole top-level argument, and when it fails, the entry it
\* failed at is never a constant
C10_ConstantsNeverConflict ==
    /\ (analysis.pc = "done" /\ TargetIsConstant /\ Len(analysis.p_expr) = 1)
          => /\ analysis.ok
             /\ analysis.status = 0
             /\ analysis.must_be_uniform
                    = (ArgAt(callee.arguments, analysis.p_expr).modifier = "MK_UNIFORM")
    /\ (analysis.pc = "done" /\ analysis.found /\ ~analysis.ok)
          => /\ analysis.status = -15
             /\ ExprAt(callee.arguments, analysis.last.expr).kind # "EK_CONSTANT"

\* a constant top-level argument declared uniform was analyzed
C10_Witness ==
    /\ analysis.pc = "done"
    /\ TargetIsConstant
    /\ Len(analysis.p_expr) = 1
    /\ ArgAt(callee.arguments, analysis.p_expr).modifier = "MK_UNIFORM"
    /\ analysis.last.is_uniform
    /\ analysis.ok

----------------------------------------------------------------------------
(* The uniform analyzer and material instances *)

\* the entry popped by the last iteration is a call of a material instance
LastIsMaterialInstance ==
    /\ analysis.last.expr # <<>>
    /\ ExprAt(callee.arguments, analysis.last.expr).kind = "EK_CALL"
    /\ ExprAt(callee.arguments, analysis.last.expr).class_id = ID_MATERIAL_INSTANCE

\* C11: whenever the analyzer has popped a call of a material instance that is required
\* to be uniform, the analysis has returned failure and the status of the promotion is
\* the uniform conflict, -15
C11_MaterialBarrier ==
    (LastIsMaterialInstance /\ analysis.last.is_uniform)
        => /\ analysis.pc = "done"
           /\ ~analysis.ok
           /\ analysis.status = -15

\* a material instance that is the argument of a uniform parameter was popped
C11_Witness ==
    /\ LastIsMaterialInstance
    /\ analysis.last.is_uniform
    /\ callee.arguments[analysis.last.expr[1]].modifier = "MK_UNIFORM"
    /\ analysis.pc = "done"
    /\ analysis.status = -15

----------------------------------------------------------------------------
(* The uniform analyzer and the ternary operator *)

\* the entry of the queue is argument 0 of a call of the ternary operator
IsTernaryCondition(entry) ==
    /\ Len(entry.expr) > 1
    /\ entry.expr[Len(entry.expr)] = 1
    /\ ExprAt(callee.arguments, SubSeq(entry.expr, 1, Len(entry.expr) - 1)).semantic = "OK_TERNARY"

\* C12 as stated: every condition of a ternary operator the analyzer has enqueued,
\* of a call and of a direct call alike, is required to be uniform
C12_Original ==
    \A k \in 1..Len(analysis.queue) :
        IsTernaryCondition(analysis.queue[k]) => analysis.queue[k].is_uniform

----------------------------------------------------------------------------
(* Path resolution *)

Segments(path) == [k \in 1..((Len(path) + 1) \div 2) |-> path[2 * k - 1]]

\* the nodes find_path continues below: a call of a function call or of a material
\* instance, or a direct call
Descends(expr) ==
    \/ expr.kind = "EK_CALL" /\ expr.class_id \in {ID_FUNCTION_CALL, ID_MATERIAL_INSTANCE}
    \/ expr.kind = "EK_DIRECT_CALL"

\* position is the location the names lead to: the first name is a root argument, every
\* further name an argument of the node before it, which is a node that is continued below
IsLocation(arguments, names, position) ==
    /\ Len(position) = Len(names)
    /\ \A k \in 1..Len(names) :
          LET list == IF k = 1 THEN arguments
                      ELSE ExprAt(arguments, SubSeq(position, 1, k - 1)).arguments
          IN  /\ k > 1 => Descends(ExprAt(arguments, SubSeq(position, 1, k - 1)))
              /\ position[k] \in 1..Len(list)
              /\ list[position[k]].name = names[k]

\* C15: find_path returns the expression at the location of the path: the first segment
\* looked up among the root arguments, each following one by name among the arguments of
\* the current node, which is a call of a function call or material instance or a direct
\* call; it returns "not found" exactly if there is no such location: a segment names no
\* argument or remains at a constant, a reference or a call of another kind
C15_ResolverContract ==
    \A r \in resolved :
        /\ r.result # <<>> => IsLocation(callee.arguments, Segments(r.path), r.result)
        /\ r.result = <<>> =>
              \A position \in [1..Len(Segments(r.path)) -> 1..Len(ArgNames)] :
                  ~IsLocation(callee.arguments, Segments(r.path), position)

\* a path of two segments was resolved, and a path of two segments that names no
\* argument of the call failed
C15_Witness ==
    /\ \E r \in resolved : Len(r.result) = 2
    /\ \E r \in resolved :
          /\ r.result = <<>>
          /\ Len(r.path) = 3
          /\ r.path[1] = "a"
          /\ callee.arguments[1].expr.kind = "EK_CALL"

----------------------------------------------------------------------------
(* The uniform analyzer: single parameters and propagation *)

\* C16: for a path that is a single top-level parameter name whose argument is a
\* constant, the analysis succeeds; must_be_uniform is false when the declared type of
\* the parameter is plain, and in general it tells whether the declared type carries
\* the modifier uniform
C16_SingleSegmentConstant ==
    (analysis.pc = "done" /\ TargetIsConstant /\ Len(analysis.path) = 1)
        => LET modifier == callee.arguments[analysis.p_expr[1]].modifier
           IN  /\ analysis.ok
               /\ modifier = "MK_NONE" => ~analysis.must_be_uniform
               /\ analysis.must_be_uniform <=> modifier = "MK_UNIFORM"

\* a constant argument of a parameter of plain type was analyzed
C16_Witness ==
    /\ analysis.pc = "done"
    /\ TargetIsConstant
    /\ analysis.path = <<"a">>
    /\ callee.arguments[1].modifier = "MK_NONE"
    /\ analysis.ok
    /\ ~analysis.must_be_uniform

\* the expression is a call of a function: a call of a function call or a direct call
\* of a function definition
IsFunctionCall(expr) ==
    \/ expr.kind = "EK_CALL" /\ expr.class_id = ID_FUNCTION_CALL
    \/ expr.kind = "EK_DIRECT_CALL" /\ expr.class_id = ID_FUNCTION

\* the top-level parameter of the position is declared uniform, and every call between
\* the top-level argument and the position is a call of a function with a uniform
\* return type whose parameter towards the position is declared uniform
UniformChain(position) ==
    /\ callee.arguments[position[1]].modifier = "MK_UNIFORM"
    /\ \A k \in 1..(Len(position) - 1) :
          /\ IsFunctionCall(ExprAt(callee.arguments, SubSeq(position, 1, k)))
          /\ ExprAt(callee.arguments, SubSeq(position, 1, k)).ret_uniform
          /\ ArgAt(callee.arguments, SubSeq(position, 1, k + 1)).modifier = "MK_UNIFORM"

\* C17: when the top-level parameter of the path is declared uniform and every call
\* down to the target has a uniform return type and a uniform parameter towards the
\* target, the analyzer pops the target as required to be uniform, and an analysis that
\* succeeds reports must_be_uniform
C17_RequirementPropagation ==
    (analysis.found /\ UniformChain(analysis.p_expr))
        => /\ analysis.last.expr = analysis.p_expr => analysis.last.is_uniform
           /\ (analysis.pc = "done" /\ analysis.ok) => analysis.must_be_uniform

\* the target below a call with uniform return type and uniform parameter was popped,
\* and the analysis succeeded
C17_Witness ==
    /\ analysis.pc = "done"
    /\ analysis.found
    /\ Len(analysis.p_expr) = 2
    /\ UniformChain(analysis.p_expr)
    /\ analysis.last.expr = analysis.p_expr
    /\ analysis.last.is_uniform
    /\ analysis.ok
    /\ analysis.must_be_uniform

----------------------------------------------------------------------------
(* Modules of variants *)

\* create_module() from variants has returned out of one of its loops or after the
\* analysis of the new module
VariantsFailed ==
    /\ top.pc = "returned"
    /\ top.entry = "variants"
    /\ top.cause \in {"prototype_kind", "add_variant", "analysis_failed"}

\* C18: when a variant fails (a prototype that is neither a material nor a function
\* definition: -5; a default that names no parameter of the prototype: -6; a default
\* whose type does not match the type of the parameter: -7) or the new module fails the
\* analysis (-8), create_module returns that status, processes no later variant and
\* leaves the registry as it was at the call: nothing of the variants added before
\* is registered
C18_VariantsAllOrNothing ==
    VariantsFailed
        => /\ top.status # 0
           /\ registry = reg0
           /\ builder.pc = "none"
           /\ stack = <<>>
           /\ top.cause = "prototype_kind" => top.status = -5
           /\ top.cause = "analysis_failed" => top.status = -8
           /\ \A k \in 1..Len(builder.defaults) :
                 LET name == builder.defaults[k].name
                     expected == get_parameter_types(0)
                 IN  /\ name \notin DOMAIN expected => top.status = -6
                     /\ (name \in DOMAIN expected
                          /\ builder.defaults[k].type # expected[name]) => top.status = -7

\* the second variant of a call failed with a default of the wrong type
C18_Witness ==
    /\ VariantsFailed
    /\ top.cause = "add_variant"
    /\ top.status = -7
    /\ builder.i = 1
    /\ registry = reg0

----------------------------------------------------------------------------
(* Resource factory functions *)

\* C20: create_texture, create_light_profile and create_bsdf_measurement report -1 if
\* the transaction or the path is missing, otherwise -2 if the path does not start with
\* '/', otherwise -3 if the resolver yields no tag, otherwise 0; they return a value
\* exactly if the status is 0; the checks are made in that order with and without a
\* place for the status: the resolver is asked only for an absolute path
C20_ResourceFactoryStatus ==
    factory.pc = "returned"
        => LET missing == ~factory.transaction \/ factory.file_path = <<>>
               absolute == ~missing /\ factory.file_path[1] # <<>>
                                    /\ factory.file_path[1][1] = "/"
           IN  /\ missing => factory.errors = -1
               /\ (~missing /\ ~absolute) => factory.errors = -2
               /\ (absolute /\ factory.tag = 0) => factory.errors = -3
               /\ (absolute /\ factory.tag # 0) => factory.errors = 0
               /\ factory.value # 0 <=> factory.errors = 0
               /\ factory.resolved <=> absolute

\* a call without a place for the status and with a relative path returned no value
C20_Witness ==
    /\ factory.pc = "returned"
    /\ factory.op = "create_light_profile"
    /\ ~factory.has_errors
    /\ factory.transaction
    /\ factory.file_path = <<(<<"t", "/", "u">>)>>
    /\ factory.errors = -2
    /\ factory.value = 0

----------------------------------------------------------------------------
(* Materials with promoted parameters *)

\* every parameter of the list whose expression has a resource type is declared uniform
ResourcesUniform(parameters) ==
    \A k \in 1..Len(parameters) :
        synth.types[Len(parameters[k].init)] # "TK_INT"
            => parameters[k].qualifier = "FQ_UNIFORM"

\* C13: in an add_material that succeeds, the declaration has one parameter for every
\* request, and every parameter whose expression has the type texture, light profile
\* or BSDF measurement is declared uniform, whatever the analysis found for
\* must_be_uniform and whatever m_enforce_uniform of the request is
C13_ResourceOverride ==
    /\ ResourcesUniform(synth.fdecl)
    /\ (synth.pc = "returned" /\ synth.status = 0)
          => /\ Len(synth.declarations) = 1
             /\ Len(synth.declarations[1]) = Len(synth.requests)
             /\ ResourcesUniform(synth.declarations[1])

\* a material was added with a resource parameter that the analysis does not require
\* to be uniform and the request does not enforce, and one that the request enforces
C13_Witness ==
    /\ synth.pc = "returned"
    /\ synth.status = 0
    /\ Len(synth.declarations) = 1
    /\ \E k \in 1..Len(synth.requests) :
          /\ ~synth.new_params[k].is_uniform
          /\ ~synth.requests[k].m_enforce_uniform
          /\ synth.types[Len(synth.new_params[k].init)] = "TK_LIGHT_PROFILE"
          /\ synth.declarations[1][k].qualifier = "FQ_UNIFORM"
    /\ \E k \in 1..Len(synth.requests) :
          /\ synth.requests[k].m_enforce_uniform
          /\ synth.types[Len(synth.new_params[k].init)] = "TK_TEXTURE"

\* C19: add_material returns -13 at the first request whose path does not resolve and
\* -15 at the first request whose analysis fails, and reads no request after it; when
\* it has returned a status other than 0, also for annotations that cannot be
\* converted, the module has no new declaration
C19_PromotionAtomic ==
    /\ \A k \in 1..Len(synth.requests) :
          LET path == synth.requests[k].m_path
              expr == find_path(path, callee.arguments)
          IN  /\ expr = <<>>
                    => /\ synth.pc = "returned"
                       /\ synth.status = -13
                       /\ k = Len(synth.requests)
              /\ (expr # <<>> /\ ~can_enforce_uniform(callee.arguments, path, expr).ok)
                    => /\ synth.pc = "returned"
                       /\ synth.status = -15
                       /\ k = Len(synth.requests)
    /\ (synth.pc = "returned" /\ synth.status # 0) => synth.declarations = <<>>
    /\ (synth.pc = "returned" /\ synth.status \in {-13, -15})
          => /\ Len(synth.new_params) = Len(synth.requests) - 1
             /\ synth.fdecl = <<>>

\* the path of the second request did not resolve after the first request was accepted
C19_Witness ==
    /\ synth.pc = "returned"
    /\ synth.status = -13
    /\ Len(synth.requests) = 2
    /\ Len(synth.new_params) = 1
    /\ synth.declarations = <<>>

----------------------------------------------------------------------------
(* The uniform analyzer: the flag, the rules for calls, termination *)

\* C22: must_be_uniform is false when the analysis starts and is never reset to false
\* while it runs; when the analysis succeeds, must_be_uniform is true exactly if an
\* entry was popped whose expression is the target and that is required to be uniform
C22_ResultFlag ==
    /\ [](analysis.popped = <<>> => ~analysis.must_be_uniform)
    /\ []((analysis.pc = "done" /\ analysis.ok)
            => (analysis.must_be_uniform
                  <=> \E k \in 1..Len(analysis.popped) :
                         /\ analysis.popped[k].expr = analysis.p_expr
                         /\ analysis.popped[k].is_uniform))
    /\ [][(analysis.pc = "running" /\ analysis.must_be_uniform)
              => analysis'.must_be_uniform]_vars

\* an analysis succeeded that popped the required target before other entries
C22_Witness ==
    /\ analysis.pc = "done"
    /\ analysis.ok
    /\ analysis.must_be_uniform
    /\ Len(analysis.popped) >= 2
    /\ analysis.popped[1].expr = analysis.p_expr
    /\ analysis.popped[1].is_uniform

\* C23: a call of a function popped as required to be uniform fails the analysis at
\* that node exactly if its return type is not uniform and the function is not a
\* uniform function; a call of a function popped as not required never fails there
C23_FunctionConflict ==
    (analysis.last.expr # <<>>
       /\ IsFunctionCall(ExprAt(callee.arguments, analysis.last.expr)))
        => ((analysis.pc = "done" /\ ~analysis.ok)
              <=> /\ analysis.last.is_uniform
                  /\ ~ExprAt(callee.arguments, analysis.last.expr).ret_uniform
                  /\ ~is_uniform_function(ExprAt(callee.arguments, analysis.last.expr)))

\* a direct call of a varying function without uniform return type failed the analysis
C23_Witness ==
    /\ analysis.pc = "done"
    /\ ~analysis.ok
    /\ analysis.last.is_uniform
    /\ ExprAt(callee.arguments, analysis.last.expr).kind = "EK_DIRECT_CALL"
    /\ ExprAt(callee.arguments, analysis.last.expr).class_id = ID_FUNCTION
    /\ ExprAt(callee.arguments, analysis.last.expr).is_varying
    /\ ~ExprAt(callee.arguments, analysis.last.expr).ret_uniform

\* the requirement an argument is enqueued with: not varying, and required by the call
\* or declared uniform; the call requires it when it was popped as required, its
\* return type is not uniform and the function is a uniform function
ExpansionRule(e, i) ==
    LET expr == ExprAt(callee.arguments, e.expr)
        auto_required == e.is_uniform /\ ~expr.ret_uniform /\ is_uniform_function(expr)
    IN  /\ expr.arguments[i].modifier # "MK_VARYING"
        /\ auto_required \/ expr.arguments[i].modifier = "MK_UNIFORM"

\* C24: the expansion of a call of a function appends every argument to the queue
\* exactly once, in order, and every argument but the condition of a ternary operator
\* with the requirement of the rule; an argument of a parameter declared varying is
\* enqueued as not required
C24_ExpansionRule ==
    [][(/\ analysis.pc = "running"
        /\ analysis'.pc = "running"
        /\ analysis'.popped # analysis.popped
        /\ IsFunctionCall(ExprAt(callee.arguments, Head(analysis.queue).expr)))
          => LET e == Head(analysis.queue)
                 n == Len(ExprAt(callee.arguments, e.expr).arguments)
                 m == Len(analysis.queue) - 1
             IN  /\ Len(analysis'.queue) = m + n
                 /\ SubSeq(analysis'.queue, 1, m) = Tail(analysis.queue)
                 /\ \A i \in 1..n :
                       /\ analysis'.queue[m + i].expr = Append(e.expr, i)
                       /\ ~IsTernaryCondition(analysis'.queue[m + i])
                             => (analysis'.queue[m + i].is_uniform <=> ExpansionRule(e, i))
                       /\ ArgAt(callee.arguments, Append(e.expr, i)).modifier = "MK_VARYING"
                             => ~analysis'.queue[m + i].is_uniform]_vars

\* a uniform function popped as required has enqueued the argument of a parameter
\* declared varying as not required
C24_Witness ==
    /\ analysis.pc = "running"
    /\ analysis.last.expr # <<>>
    /\ IsFunctionCall(ExprAt(callee.arguments, analysis.last.expr))
    /\ analysis.last.is_uniform
    /\ ~ExprAt(callee.arguments, analysis.last.expr).ret_uniform
    /\ analysis.queue # <<>>
    /\ analysis.queue[1].expr = Append(analysis.last.expr, 1)
    /\ ArgAt(callee.arguments, analysis.queue[1].expr).modifier = "MK_VARYING"
    /\ ~analysis.queue[1].is_uniform

\* C25: whenever a parameter reference or a temporary reference is popped, as the
\* top-level argument or as an argument of a call, required or not, the analysis
\* returns failure
C25_ReferencesFail ==
    (analysis.last.expr # <<>>
       /\ ExprAt(callee.arguments, analysis.last.expr).kind \in {"EK_PARAMETER", "EK_TEMPORARY"})
        => /\ analysis.pc = "done"
           /\ ~analysis.ok
           /\ analysis.status = -15

\* a temporary reference that is an argument of a call was popped as not required
C25_Witness ==
    /\ analysis.pc = "done"
    /\ ~analysis.ok
    /\ Len(analysis.last.expr) = 2
    /\ ~analysis.last.is_uniform
    /\ ExprAt(callee.arguments, analysis.last.expr).kind = "EK_TEMPORARY"

\* C26: the analysis of every argument tree returns; it returns failure at the first
\* conflicting entry it pops and leaves the entries behind it in the queue, and it
\* returns success exactly when the queue has become empty
C26_TerminatesShortCircuit ==
    /\ (analysis.pc = "running") ~> (analysis.pc = "done")
    /\ []((analysis.pc = "done" /\ analysis.ok) => analysis.queue = <<>>)
    /\ [][(analysis.pc = "running" /\ analysis'.pc = "done")
              => IF analysis.queue = <<>>
                 THEN analysis'.ok /\ analysis'.popped = analysis.popped
                 ELSE /\ ~analysis'.ok
                      /\ analysis'.queue = Tail(analysis.queue)
                      /\ analysis'.popped = Append(analysis.popped, Head(analysis.queue))]_vars
    /\ [][(analysis.pc = "running" /\ analysis.queue = <<>>) => analysis'.pc = "done"]_vars

\* the analysis has returned failure with an entry left in the queue
C26_Witness ==
    /\ analysis.pc = "done"
    /\ ~analysis.ok
    /\ analysis.found
    /\ analysis.queue # <<>>
    /\ Len(analysis.popped) = 2

----------------------------------------------------------------------------
(* The stages of a call *)

----------------------------------------------------------------------------
(* The body of a new material *)

\* the paths that name an argument of the prototype
DirectRequests ==
    {k \in 1..Len(synth.requests) :
        /\ Len(synth.requests[k].m_path) = 1
        /\ get_index(callee.arguments, synth.requests[k].m_path[1]) # 0}

\* C27 as stated: the body is a let expression exactly if the prototype has more
\* arguments than there are parameters that name an argument, else the call
C27_Original ==
    synth.body.kind # "none"
    => (synth.body.kind = "let"
        <=> synth.has_args /\ Len(callee.arguments) > Cardinality(DirectRequests))

\* C27: the body is a let expression exactly if the prototype has at least one
\* argument, else it is the call without arguments; the let expression declares one
\* temporary per argument, in the order of the arguments, initialised with that
\* argument, and the call names every argument and passes its temporary
C27_LetWrapping ==
    synth.body.kind # "none"
    => LET n == IF synth.has_args THEN Len(callee.arguments) ELSE 0
           body == synth.body
       IN  /\ body.kind = (IF n > 0 THEN "let" ELSE "call")
           /\ Len(body.declarations) = n
           /\ Len(body.arguments) = n
           /\ \A k \in 1..n :
                 /\ body.declarations[k].init = <<k>>
                 /\ body.arguments[k].name = callee.arguments[k].name
                 /\ body.arguments[k].ref = body.declarations[k].tmp_sym
           /\ \A j, k \in 1..n :
                 body.declarations[j].tmp_sym = body.declarations[k].tmp_sym => j = k

\* a material is created whose only argument is a parameter of the new material, and
\* its body is a let expression
C27_Witness ==
    /\ synth.pc = "returned"
    /\ synth.status = 0
    /\ synth.body.kind = "let"
    /\ Len(synth.requests) = 1
    /\ synth.requests[1].m_path = <<"a">>

----------------------------------------------------------------------------
(* The parameters of a new material *)

\* C28: the declaration a successful add_material adds has one parameter per request,
\* in the order of the requests: the k-th has the name of the k-th request and the
\* expression its path resolves to as default, and, if that expression is not of a
\* resource type, the qualifier uniform exactly if can_enforce_uniform set
\* must_be_uniform for the request or the request has m_enforce_uniform
C28_Parameters ==
    (synth.pc = "returned" /\ synth.status = 0)
    => /\ Len(synth.declarations) = 1
       /\ Len(synth.requests) = synth.count
       /\ LET params == synth.declarations[1]
          IN  /\ Len(params) = Len(synth.requests)
              /\ \A k \in 1..Len(params) :
                    LET pd == synth.requests[k]
                        expr == find_path(pd.m_path, callee.arguments)
                    IN  /\ params[k].name = pd.m_name
                        /\ expr # <<>>
                        /\ params[k].init = expr
                        /\ synth.types[Len(expr)] = "TK_INT"
                            => (params[k].qualifier = "FQ_UNIFORM"
                                <=> \/ can_enforce_uniform(callee.arguments, pd.m_path,
                                                           expr).must_be_uniform
                                    \/ pd.m_enforce_uniform)

\* a material with two parameters of a type that is no resource type is created: the
\* first is an argument of the prototype, the second an argument of that argument
\* and made uniform by its request only
C28_Witness ==
    /\ synth.pc = "returned"
    /\ synth.status = 0
    /\ Len(synth.declarations) = 1
    /\ Len(synth.declarations[1]) = 2
    /\ synth.types = <<"TK_INT", "TK_INT">>
    /\ synth.requests[1].m_path = <<"a">>
    /\ synth.requests[2].m_path = <<"a", ".", "x">>
    /\ synth.declarations[1][1].qualifier = "FQ_NONE"
    /\ synth.declarations[1][2].qualifier = "FQ_UNIFORM"
    /\ synth.requests[2].m_enforce_uniform
    /\ ~can_enforce_uniform(callee.arguments, <<"a", ".", "x">>,
                            find_path(<<"a", ".", "x">>, callee.arguments)).must_be_uniform

----------------------------------------------------------------------------
(* The version of a module of variants *)

----------------------------------------------------------------------------
(* The order of the stores *)

\* C30: every store of create_module_internal adds one element under a tag no element
\* has: first the module, under its DB name with store(), then the function definitions
\* in their order, then the material definitions in their order, each with the tag of
\* the module, an exported one with store() and another one with
\* store_for_reference_counting(); when create_module_internal returns 0 the registry
\* holds the module and exactly one element per definition, with tags in that order
C30_RegistrationOrder ==
    /\ [][registry' # registry /\ registry \subseteq registry'
           => /\ stack # <<>>
              /\ \E e \in registry' \ registry :
                    /\ registry' = registry \cup {e}
                    /\ e.tag = next_tag
                    /\ next_tag' > next_tag
                    /\ \A old \in registry : old.tag # e.tag /\ old.name # e.name
                    /\ \/ /\ Top.pc = "store_module"
                          /\ e.class_id = ID_MODULE
                          /\ e.name = add_mdl_db_prefix(Top.module)
                          /\ e.visible
                          /\ Top.jf = 0 /\ Top.jm = 0
                       \/ /\ Top.pc = "store_definitions"
                          /\ Top.jf < Len(Top.functions)
                          /\ Top.jm = 0
                          /\ e.class_id = ID_FUNCTION
                          /\ e.name = add_mdl_db_prefix(Top.functions[Top.jf + 1].name)
                          /\ e.visible = Top.functions[Top.jf + 1].exported
                          /\ e.module = Top.db_module_tag
                          /\ e.module < e.tag
                       \/ /\ Top.pc = "store_definitions"
                          /\ Top.jf = Len(Top.functions)
                          /\ Top.jm < Len(Top.materials)
                          /\ e.class_id = ID_MATERIAL
                          /\ e.name = add_mdl_db_prefix(Top.materials[Top.jm + 1].name)
                          /\ e.visible = Top.materials[Top.jm + 1].exported
                          /\ e.module = Top.db_module_tag
                          /\ e.module < e.tag]_vars
    /\ []((/\ stack # <<>>
           /\ Top.pc = "store_definitions"
           /\ Top.jf = Len(Top.functions)
           /\ Top.jm = Len(Top.materials))
          => LET own == {e \in registry : e.module = Top.db_module_tag}
                 stored(defs, k, class_id) ==
                     {e \in own : /\ e.name = add_mdl_db_prefix(defs[k].name)
                                   /\ e.class_id = class_id
                                   /\ e.visible = defs[k].exported}
             IN  /\ Cardinality({e \in registry : e.tag = Top.db_module_tag}) = 1
                 /\ \A e \in registry :
                       e.tag = Top.db_module_tag
                       => e.class_id = ID_MODULE /\ e.name = add_mdl_db_prefix(Top.module)
                 /\ Cardinality(own) = Len(Top.functions) + Len(Top.materials)
                 /\ \A k \in 1..Len(Top.functions) :
                       Cardinality(stored(Top.functions, k, ID_FUNCTION)) = 1
                 /\ \A k \in 1..Len(Top.materials) :
                       Cardinality(stored(Top.materials, k, ID_MATERIAL)) = 1
                 /\ \A f, m \in own :
                       (f.class_id = ID_FUNCTION /\ m.class_id = ID_MATERIAL)
                       => (Top.db_module_tag < f.tag /\ f.tag < m.tag))

\* the definitions of a module with an exported function, a local function and an
\* exported material are stored: the local function is not visible
C30_Witness ==
    /\ stack # <<>>
    /\ Top.pc = "store_definitions"
    /\ Top.jf = 2
    /\ Top.jm = 1
    /\ Len(Top.materials) = 1
    /\ \E f, g, m \in registry :
          /\ f.module = Top.db_module_tag /\ g.module = Top.db_module_tag
          /\ m.module = Top.db_module_tag
          /\ f.class_id = ID_FUNCTION /\ f.visible
          /\ g.class_id = ID_FUNCTION /\ ~g.visible
          /\ m.class_id = ID_MATERIAL /\ m.visible
          /\ f.tag < g.tag /\ g.tag < m.tag

----------------------------------------------------------------------------
(* The imports of a stored module *)

\* C31: a module is stored with one import tag per import of the compiled module, in
\* the order of the imports, and each tag is that of a module element that is in the
\* registry under the DB name of the import when the importing module is stored; so
\* every import tag of every module in the registry is the tag of a module in the
\* registry
C31_ImportClosure ==
    /\ [][\A e \in registry' \ registry :
             e.class_id = ID_MODULE
             => /\ stack # <<>>
                /\ Len(e.imports) = Len(Top.import_names)
                /\ \A k \in 1..Len(e.imports) :
                      \E r \in registry :
                         /\ r.tag = e.imports[k]
                         /\ r.class_id = ID_MODULE
                         /\ r.name = add_mdl_db_prefix(Top.import_names[k])]_vars
    /\ [](\A m \in registry :
             m.class_id = ID_MODULE
             => \A k \in 1..Len(m.imports) :
                   \E r \in registry : r.tag = m.imports[k] /\ r.class_id = ID_MODULE)

\* a module with two imports is stored: one import was stored by a nested invocation
\* of this call, the other was in the registry before the call
C31_Witness ==
    \E m \in registry \ reg0 :
       /\ m.class_id = ID_MODULE
       /\ Len(m.imports) = 2
       /\ m.imports[1] # m.imports[2]
       /\ \E k \in 1..2 : \E r \in reg0 : r.tag = m.imports[k]
       /\ \E k \in 1..2 : \E r \in registry \ reg0 : r.tag = m.imports[k]

----------------------------------------------------------------------------
(* The import entries *)

\* C32: the import entries of a module are restored exactly while an invocation of
\* create_module_internal for it is past restore_import_entries(); an invocation that
\* returns after a successful restore_import_entries() (no code, error messages of the
\* code, an import of the wrong kind, a failed import, a name in use, success) has
\* called drop_import_entries() once, an invocation that returns before has not
\* called it; the entries of an import are dropped when the outer invocation goes on
C32_ImportScopeRelease ==
    /\ [](restored = {stack[k].module : k \in {j \in 1..Len(stack) : stack[j].pc # "begin"}})
    /\ [](ret.set
          => ret.dropped = (IF ret.cause \in {"no_code", "code_errors", "import_wrong_kind",
                                             "import_failed", "definition_name_in_use",
                                             "stored"}
                            THEN 1 ELSE 0))
    /\ []((stack # <<>> /\ ret.set /\ Top.pc = "call")
          => Top.import_names[Top.i + 1] \notin restored)
    /\ [][Len(stack') < Len(stack)
           => /\ ret'.set
              /\ Top.module \notin restored'
              /\ restored' \subseteq restored]_vars

\* the nested invocation for an import has failed after its import entries were
\* restored and has dropped them, the entries of the outer module are still restored
C32_Witness ==
    /\ stack # <<>>
    /\ Top.pc = "call"
    /\ ret.set
    /\ ret.status < 0
    /\ ret.dropped = 1
    /\ ret.cause = "code_errors"
    /\ Top.module \in restored

----------------------------------------------------------------------------
(* The recursion over the imports *)

\* C33: every invocation of create_module_internal returns; a nested invocation is
\* started only for an import whose DB name is not bound and that no active
\* invocation works on; a module is compiled only while its DB name is not bound; a
\* failed nested invocation makes the outer invocation return with a negative status
\* at once; so the modules a call stores have distinct names: a module that is
\* reached through several imports is compiled and stored once
C33_ImportsTerminate ==
    /\ (stack # <<>>) ~> (stack = <<>>)
    /\ [][(stack # <<>> /\ Len(stack') > Len(stack))
           => LET import == stack'[Len(stack')].module
              IN  /\ Top.pc = "imports"
                  /\ import = Top.import_names[Top.i + 1]
                  /\ name_to_tag(registry, add_mdl_db_prefix(import)) = 0
                  /\ \A k \in 1..Len(stack) : stack[k].module # import]_vars
    /\ [][(/\ stack # <<>>
            /\ Top.pc = "begin"
            /\ Len(stack') = Len(stack)
            /\ stack'[Len(stack')].pc = "imports")
           => name_to_tag(registry, add_mdl_db_prefix(Top.module)) = 0]_vars
    /\ [][(stack # <<>> /\ ret.set /\ ret.status < 0)
           => (Len(stack') < Len(stack) /\ ret'.set /\ ret'.status < 0)]_vars
    /\ [](\A j, k \in 1..Len(stack) : stack[j].module = stack[k].module => j = k)
    /\ [](\A d, e \in registry :
             (d.class_id = ID_MODULE /\ e.class_id = ID_MODULE /\ d.name = e.name)
             => d = e)

\* module a imports b and c, and b imports c: the invocation for b has stored c, and
\* the invocation for a has found c by its name
C33_Witness ==
    /\ Len(stack) = 1
    /\ Top.module = NameA
    /\ Top.import_names = <<NameB, NameC>>
    /\ Top.pc = "imports"
    /\ Top.i = 2
    /\ \E b, c \in registry \ reg0 :
          /\ b.name = add_mdl_db_prefix(NameB)
          /\ c.name = add_mdl_db_prefix(NameC)
          /\ b.imports = <<c.tag>>
          /\ Top.imports = <<b.tag, c.tag>>

----------------------------------------------------------------------------
(* The names of the stored elements *)

\* C34 as stated: the name of every element the driver stores is not bound in the
\* registry when it is stored, also if the name occurs more than once among the
\* function and material entries of the module, and no two elements of the registry
\* have the same name
C34_Original ==
    /\ [][\A e \in registry' \ registry : name_to_tag(registry, e.name) = 0]_vars
    /\ [](\A d, e \in registry : d.name = e.name => d = e)

----------------------------------------------------------------------------
(* Failures before the import loop *)

\* C35: an invocation of create_module_internal that returns before its import loop
\* (the module is not valid, restore_import_entries() fails, compile() returns no code
\* or code with error messages) returns a negative status and leaves the registry and
\* the tags as they were when it started: it has stored none of its imports
C35_EarlyFailureFrame ==
    [][(/\ stack # <<>>
        /\ Top.pc = "begin"
        /\ Len(stack') < Len(stack)
        /\ ret'.cause \in {"invalid_module", "restore_imports", "no_code", "code_errors"})
       => /\ ret'.status < 0
          /\ registry' = registry
          /\ next_tag' = next_tag
          /\ \A c \in Top.choices :
                \A k \in 1..Len(c.imports) :
                   name_to_tag(registry', add_mdl_db_prefix(c.imports[k]))
                   = name_to_tag(registry, add_mdl_db_prefix(c.imports[k]))]_vars

\* the nested invocation for the second import of a module has returned because
\* compile() returned no code; the first import, stored by this call, is registered
\* and the second import is not
C35_Witness ==
    /\ stack # <<>>
    /\ Top.pc = "call"
    /\ Top.i = 1
    /\ ret.set
    /\ ret.cause = "no_code"
    /\ registry # reg0
    /\ name_to_tag(registry, add_mdl_db_prefix(Top.import_names[1])) # 0
    /\ name_to_tag(registry, add_mdl_db_prefix(Top.import_names[2])) = 0

----------------------------------------------------------------------------
(* The entries the analysis pops *)

\* C36 as stated: when find_path() has found the expression of a path and
\* can_enforce_uniform() returns true for the path, the expression has been popped
\* from the queue, also if it is an argument of a material instance
C36_Original ==
    (analysis.pc = "done" /\ analysis.found /\ analysis.ok)
    => \E k \in 1..Len(analysis.popped) : analysis.popped[k].expr = analysis.p_expr

----------------------------------------------------------------------------
(* Materials in calls and in direct calls *)

\* C37 as stated: a material that is popped without the requirement to be uniform
\* does not make the analysis fail, be it the material instance of a call or the
\* material definition of a direct call
C37_Original ==
    (/\ analysis.last.expr # <<>>
     /\ ~analysis.last.is_uniform
     /\ LET expr == ExprAt(callee.arguments, analysis.last.expr)
        IN  \/ expr.kind = "EK_CALL" /\ expr.class_id = ID_MATERIAL_INSTANCE
            \/ expr.kind = "EK_DIRECT_CALL" /\ expr.class_id = ID_MATERIAL)
    => ~(analysis.pc = "done" /\ ~analysis.ok)

----------------------------------------------------------------------------
(* The order of the traversal *)

\* the reference: the rules of the switch applied depth first, to an entry and then
\* to the entries it pushes, in their order; it fails at the first entry that fails
RECURSIVE DepthFirst(_, _, _)
RECURSIVE DepthFirstAll(_, _, _)
DepthFirst(arguments, p_expr, e) ==
    LET verdict == Process(arguments, e)
    IN  IF ~verdict.ok THEN [ok |-> FALSE, must_be_uniform |-> FALSE]
        ELSE LET below == DepthFirstAll(arguments, p_expr, verdict.push)
             IN  [ok |-> below.ok,
                  must_be_uniform |-> (e.is_uniform /\ e.expr = p_expr)
                                      \/ below.must_be_uniform]

DepthFirstAll(arguments, p_expr, entries) ==
    IF entries = <<>> THEN [ok |-> TRUE, must_be_uniform |-> FALSE]
    ELSE LET first == DepthFirst(arguments, p_expr, Head(entries))
         IN  IF ~first.ok THEN [ok |-> FALSE, must_be_uniform |-> FALSE]
             ELSE LET rest == DepthFirstAll(arguments, p_expr, Tail(entries))
                  IN  [ok |-> rest.ok,
                       must_be_uniform |-> first.must_be_uniform \/ rest.must_be_uniform]

----------------------------------------------------------------------------
(* The argument list of the prototype *)

\* C39 as stated: add_material uses the argument list of the prototype (to resolve a
\* path, or to build the body at line 845) only if the prototype has one
C39_Original ==
    (\/ synth.pc = "crashed"
     \/ synth.body.kind # "none"
     \/ synth.new_params # <<>>)
    => synth.has_args

====
